---- MODULE Spec2Model ----
(***************************************************************************)
(* Model of the salt_and_pepper arc animation: the Ellipse drawing state   *)
(* machine (src/src/Ellipse.ts), the EllipseSetBase drift cycle            *)
(* (EllipseSet.ts), the global State record (State.ts), the helpers of     *)
(* Utils.ts and the animate() frame callback of main.ts.                   *)
(*                                                                         *)
(* Numbers: the program computes in IEEE doubles.  The model computes in   *)
(* fixed point with SCALE units per 1.0 (1 unit = 0.001 rad, 0.001 length  *)
(* unit, 1 ms).  Products are rescaled by Mul, Math.sin/Math.cos are the   *)
(* truncated Taylor series Sin/Cos after range reduction.                  *)
(***************************************************************************)
EXTENDS Integers, Sequences, FiniteSets, TLC

VARIABLES
    hasInteracted,           \* State.hasInteracted
    currentMode,             \* State.currentMode
    modeTimer,               \* State.modeTimer
    nextModeSwitchDuration,  \* State.nextModeSwitchDuration
    modeSwitchCount,         \* State.modeSwitchCount
    isBlurred,               \* State.isBlurred
    blurPhase,               \* State.blurPhase
    blurTimer,               \* State.blurTimer
    nextBlurSwitchDuration,  \* State.nextBlurSwitchDuration
    interactionTarget,       \* State.interactionTarget
    drift,                   \* State.drift
    sets,                    \* setPage1 / setPage2: lastCycleTime and ellipses
    elapsed,                 \* clock.getElapsedTime() at the latest frame
    frameDt,                 \* wall-clock time between two frames (display refresh)
    overlay,                 \* document.getElementById('blur-overlay') is non-null
    viewport,                \* window.innerWidth, innerHeight as given to the renderer
    ticks,                   \* number of animate() calls so far
    last                     \* the latest operation, its arguments and its result

vars == <<hasInteracted, currentMode, modeTimer, nextModeSwitchDuration,
          modeSwitchCount, isBlurred, blurPhase, blurTimer,
          nextBlurSwitchDuration, interactionTarget, drift, sets, elapsed,
          frameDt, overlay, viewport, ticks, last>>

----------------------------------------------------------------------------
(* Bounds of the model *)

P1Count == 2

MaxCycles == 2

MaxCalls == 14

MaxTicks == 600

ActivateWindow == 2

----------------------------------------------------------------------------
(* Fixed-point arithmetic *)

SCALE == 1000

Pi == 3142

TwoPi == 2 * Pi

HalfPi == Pi \div 2

Abs(x) == IF x < 0 THEN -x ELSE x

Sgn(x) == IF x < 0 THEN -1 ELSE 1

Max(a, b) == IF a > b THEN a ELSE b

Min(a, b) == IF a < b THEN a ELSE b

\* a / b of two integers, truncated toward zero
TDiv(a, b) == Sgn(a) * Sgn(b) * (Abs(a) \div Abs(b))

\* a * b of two fixed-point numbers
Mul(a, b) == TDiv(a * b, SCALE)

\* a / b of two fixed-point numbers
Div(a, b) == TDiv(a * SCALE, b)

\* the representative of x modulo 2*pi in (-pi, pi]
WrapPi(x) == LET r == x % TwoPi IN IF r > Pi THEN r - TwoPi ELSE r

SinSeries(x) ==
    LET x2 == Mul(x, x)
        x3 == Mul(x2, x)
        x5 == Mul(x3, x2)
        x7 == Mul(x5, x2)
    IN  x - TDiv(x3, 6) + TDiv(x5, 120) - TDiv(x7, 5040)

CosSeries(x) ==
    LET x2 == Mul(x, x)
        x4 == Mul(x2, x2)
        x6 == Mul(x4, x2)
    IN  SCALE - TDiv(x2, 2) + TDiv(x4, 24) - TDiv(x6, 720)

\* Math.sin
Sin(x) ==
    LET r == WrapPi(x)
    IN  IF r > HalfPi THEN SinSeries(Pi - r)
        ELSE IF r < -HalfPi THEN SinSeries(-Pi - r)
        ELSE SinSeries(r)

\* Math.cos
Cos(x) ==
    LET r == WrapPi(x)
    IN  IF r > HalfPi THEN -CosSeries(Pi - r)
        ELSE IF r < -HalfPi THEN -CosSeries(-Pi - r)
        ELSE CosSeries(r)

RECURSIVE SqrtSearch(_, _, _)
SqrtSearch(n, lo, hi) ==
    IF lo >= hi THEN lo
    ELSE LET mid == (lo + hi + 1) \div 2
         IN  IF mid * mid <= n THEN SqrtSearch(n, mid, hi)
             ELSE SqrtSearch(n, lo, mid - 1)

\* Math.sqrt of a fixed-point number
Sqrt(v) == SqrtSearch(v * SCALE, 0, 46340)

----------------------------------------------------------------------------
(* Config.ts *)

CYCLE_INTERVAL == 1200

\* a drawing speed of 0.5 per update
UNIFIED_DRAW_SPEED_Half == SCALE \div 2

UNIFIED_DRAW_SPEED == 1000

UNIFIED_TAIL_DELAY == (TwoPi * 85) \div 100

DEFAULT_ORIGIN_SCALE == 130

(* State.ts *)

PAGE1 == "PAGE1"

PAGE2 == "PAGE2"

Mode == {PAGE1, PAGE2}

(* main.ts: the configuration records handed to the two sets *)

Page1Config ==
    [count |-> P1Count, radiusScale |-> 1000, segments |-> 32,
     originScale |-> 117, layers |-> 1, lineWidthFactor |-> 2000,
     taperCtor |-> FALSE, taperEnabled |-> FALSE]

Page2Config ==
    [count |-> 1, radiusScale |-> 2550, segments |-> 256,
     originScale |-> 133, layers |-> 3, lineWidthFactor |-> 2500,
     taperCtor |-> TRUE, taperEnabled |-> FALSE]

ConfigOf(p) == IF p = PAGE1 THEN Page1Config ELSE Page2Config

----------------------------------------------------------------------------
(* Ellipse.ts *)

NoGeometry == [written |-> FALSE, start |-> 0, effectiveEnd |-> 0,
               angleOffset |-> 0, a |-> 0, b |-> 0, taper |-> FALSE]

\* updateGeometry that tests the visibility before it moves the origin marker
UpdateGeometry_HideFirst(e, cfg, taper, hi) ==
    IF ~hi \/ Abs(e.currentStartAngle - e.currentEndAngle) < 1
    THEN [e EXCEPT !.meshesVisible = [m \in 1..cfg.layers |-> FALSE]]
    ELSE [e EXCEPT
            !.originX = Mul(e.xRadius, Cos(e.currentEndAngle)),
            !.originY = Mul(e.yRadius, Sin(e.currentEndAngle)),
            !.meshesVisible = [m \in 1..cfg.layers |-> TRUE],
            !.geometry = [written |-> TRUE, start |-> e.currentStartAngle,
                          effectiveEnd |-> e.currentEndAngle,
                          angleOffset |-> 0,
                          a |-> e.xRadius, b |-> e.yRadius, taper |-> taper]]

\* updateGeometry: originRadius * 0.8 / (currentRadius || 1)
AngleOffset(cfg, tipX, tipY) ==
    LET originRadius ==
            Mul(IF cfg.originScale # 0 THEN cfg.originScale
                ELSE DEFAULT_ORIGIN_SCALE, cfg.radiusScale)
        currentRadius == SqrtSearch(tipX * tipX + tipY * tipY, 0, 46340)
    IN  Div(Mul(originRadius, 800),
            IF currentRadius # 0 THEN currentRadius ELSE SCALE)

\* updateGeometry: the end of the ribbon, pulled back from the marker
EffectiveEnd(start, end, angleOffset) ==
    IF end + angleOffset > start THEN start ELSE end + angleOffset

\* updateGeometry from the marker position on; the geometry record holds what
\* the vertex loop is computed from
WriteGeometry(e, cfg, taper, hi, tipX, tipY) ==
    IF ~hi \/ Abs(e.currentStartAngle - e.currentEndAngle) < 1
    THEN [e EXCEPT !.originX = tipX, !.originY = tipY,
                   !.meshesVisible = [m \in 1..cfg.layers |-> FALSE]]
    ELSE [e EXCEPT
            !.originX = tipX, !.originY = tipY,
            !.meshesVisible = [m \in 1..cfg.layers |-> TRUE],
            !.geometry = [written |-> TRUE, start |-> e.currentStartAngle,
                          effectiveEnd |->
                              EffectiveEnd(e.currentStartAngle,
                                           e.currentEndAngle,
                                           AngleOffset(cfg, tipX, tipY)),
                          angleOffset |-> AngleOffset(cfg, tipX, tipY),
                          a |-> e.xRadius, b |-> e.yRadius, taper |-> taper]]

\* Ellipse.updateGeometry(taperEnabled), with State.hasInteracted = hi
UpdateGeometry(e, cfg, taper, hi) ==
    WriteGeometry(e, cfg, taper, hi,
                  Mul(e.xRadius, Cos(e.currentEndAngle)),
                  Mul(e.yRadius, Sin(e.currentEndAngle)))

\* the lineWidth argument of the constructor: originScaleFactor * radiusScale
\* * 2.0 for page 1, * 2.5 for page 2
LineWidth(cfg) ==
    Mul(Mul(IF cfg.originScale # 0 THEN cfg.originScale
            ELSE DEFAULT_ORIGIN_SCALE, cfg.radiusScale),
        cfg.lineWidthFactor)

\* updateGeometry: maxHalfWidth = this.LINE_WIDTH / 2
MaxHalfWidth(cfg) == TDiv(LineWidth(cfg), 2)

\* the vertex loop: t = i / segments
SegT(cfg, i) == TDiv(i * SCALE, cfg.segments)

\* a taperThreshold with no fallback: 0 when the ribbon has no length
TaperThreshold_NoDefault(g) ==
    LET totalAngle == Abs(g.start - g.effectiveEnd)
        taperAngle == Mul(g.angleOffset, 2500)
    IN  IF totalAngle > 1
        THEN Max(0, SCALE - Div(taperAngle, totalAngle))
        ELSE 0

\* the vertex loop: taperThreshold of the ribbon written as g
TaperThreshold(g) ==
    LET totalAngle == Abs(g.start - g.effectiveEnd)
        taperAngle == Mul(g.angleOffset, 2500)
    IN  IF totalAngle > 1
        THEN Max(0, SCALE - Div(taperAngle, totalAngle))
        ELSE 850

\* a taper that widens the ribbon towards the tip
Taper_Widen(t, thr) ==
    IF SCALE - thr > 0
    THEN SCALE + Mul(Div(t - thr, SCALE - thr), SCALE - 600)
    ELSE SCALE

\* the vertex loop: the taper factor 1.0 - taperT * (1.0 - targetScale),
\* applied when taperRange > 0.0001
Taper(t, thr) ==
    IF SCALE - thr > 0
    THEN SCALE - Mul(Div(t - thr, SCALE - thr), SCALE - 600)
    ELSE SCALE

\* the vertex loop: widthFactor at t
WidthFactor(g, t) ==
    IF g.taper /\ t > TaperThreshold(g)
    THEN Mul(500 + Mul(500, Mul(t, t)), Taper(t, TaperThreshold(g)))
    ELSE 500 + Mul(500, Mul(t, t))

\* the vertex loop: halfWidth of segment index i
HalfWidth(cfg, g, i) == Mul(MaxHalfWidth(cfg), WidthFactor(g, SegT(cfg, i)))

\* the vertex loop: alpha of segment index i, Math.pow(t, 1.5) * 0.9
Alpha(cfg, i) == Mul(Mul(SegT(cfg, i), Sqrt(SegT(cfg, i))), 900)

\* new Ellipse(config, meshes, originMesh, initialX, initialY, initialRot, ...)
NewEllipse(cfg, initialX, initialY, initialRot, hi) ==
    UpdateGeometry(
        [xRadius |-> initialX, yRadius |-> initialY, rotation |-> initialRot,
         startAngle |-> 0, currentStartAngle |-> 0, currentEndAngle |-> 0,
         targetEndAngle |-> -TwoPi,
         drawSpeed |-> UNIFIED_DRAW_SPEED, tailDelay |-> UNIFIED_TAIL_DELAY,
         finished |-> FALSE,
         containerVisible |-> TRUE, containerRotation |-> initialRot,
         originVisible |-> TRUE, originX |-> initialX, originY |-> 0,
         originOutline |-> 0,
         meshesVisible |-> [m \in 1..cfg.layers |-> FALSE],
         geometry |-> NoGeometry,
         calls |-> 0],
        cfg, cfg.taperCtor, hi)

\* resetDrawingParams that leaves the head where it was
ResetDrawingParams_KeepHead(e, cfg, hi) ==
    UpdateGeometry(
        [e EXCEPT !.startAngle = 0, !.currentStartAngle = 0,
                  !.targetEndAngle = -TwoPi,
                  !.finished = FALSE,
                  !.containerRotation = e.rotation,
                  !.calls = 0],
        cfg, cfg.taperEnabled, hi)

\* Ellipse.resetDrawingParams()
ResetDrawingParams(e, cfg, hi) ==
    UpdateGeometry(
        [e EXCEPT !.startAngle = 0, !.currentStartAngle = 0,
                  !.currentEndAngle = 0, !.targetEndAngle = -TwoPi,
                  !.finished = FALSE,
                  !.containerRotation = e.rotation,
                  !.calls = 0],
        cfg, cfg.taperEnabled, hi)

disappearanceDelayBuffer == 500

\* HeadStep without the clamp at targetEndAngle
HeadStep_NoClamp(e) ==
    IF e.currentEndAngle > e.targetEndAngle
    THEN e.currentEndAngle - e.drawSpeed
    ELSE e.currentEndAngle

\* a head step of twice drawSpeed
HeadStep_Double(e) ==
    IF e.currentEndAngle > e.targetEndAngle
    THEN LET n == e.currentEndAngle - 2 * e.drawSpeed
         IN  IF n < e.targetEndAngle THEN e.targetEndAngle ELSE n
    ELSE e.currentEndAngle

\* the head step of Ellipse.update
HeadStep(e) ==
    IF e.currentEndAngle > e.targetEndAngle
    THEN LET n == e.currentEndAngle - e.drawSpeed
         IN  IF n < e.targetEndAngle THEN e.targetEndAngle ELSE n
    ELSE e.currentEndAngle

\* TailMayMove without the tail delay: the tail moves with the head
TailMayMove_NoDelay(e, head) == TRUE

\* the tail let go after half the tail delay
TailMayMove_Half(e, head) ==
    \/ (e.startAngle - head) > (e.tailDelay \div 2)
    \/ head = e.targetEndAngle

\* the tail may move: Ellipse.update's second condition, after the head step
TailMayMove(e, head) ==
    \/ (e.startAngle - head) > (e.tailDelay + disappearanceDelayBuffer)
    \/ head = e.targetEndAngle

\* TailStep without the clamp at targetEndAngle
TailStep_NoClamp(e, head) ==
    IF TailMayMove(e, head) /\ e.currentStartAngle > e.targetEndAngle
    THEN e.currentStartAngle - e.drawSpeed
    ELSE e.currentStartAngle

\* the tail step of Ellipse.update
TailStep(e, head) ==
    IF TailMayMove(e, head) /\ e.currentStartAngle > e.targetEndAngle
    THEN LET n == e.currentStartAngle - e.drawSpeed
         IN  IF n < e.targetEndAngle THEN e.targetEndAngle ELSE n
    ELSE e.currentStartAngle

\* update that moves the angles and leaves the geometry as it was
UpdateSteps_NoRebuild(e, cfg, hi, head, tail, animating) ==
    [e |-> [e EXCEPT !.currentEndAngle = head,
                     !.currentStartAngle = tail,
                     !.finished = IF tail <= e.targetEndAngle
                                  THEN TRUE ELSE e.finished,
                     !.calls = Min(e.calls + 1, MaxCalls)],
     ret |-> animating]

\* Ellipse.update after the early return: the two steps, finished, and the
\* geometry rebuilt when an angle moved
UpdateSteps(e, cfg, hi, head, tail, animating) ==
    [e |-> IF animating
           THEN UpdateGeometry(
                    [e EXCEPT !.currentEndAngle = head,
                              !.currentStartAngle = tail,
                              !.finished = IF tail <= e.targetEndAngle
                                           THEN TRUE ELSE e.finished,
                              !.calls = Min(e.calls + 1, MaxCalls)],
                    cfg, cfg.taperEnabled, hi)
           ELSE [e EXCEPT !.currentEndAngle = head,
                          !.currentStartAngle = tail,
                          !.finished = IF tail <= e.targetEndAngle
                                       THEN TRUE ELSE e.finished,
                          !.calls = Min(e.calls + 1, MaxCalls)],
     ret |-> animating]

\* Ellipse.update: animating, set where the head or the tail is moved
Animating(e, head) ==
    \/ e.currentEndAngle > e.targetEndAngle
    \/ TailMayMove(e, head) /\ e.currentStartAngle > e.targetEndAngle

\* update that starts the drawing over once the ellipse is finished
EllipseUpdate_Restart(e, cfg, hi) ==
    IF e.finished
    THEN [e |-> ResetDrawingParams(e, cfg, hi), ret |-> TRUE]
    ELSE UpdateSteps(e, cfg, hi, HeadStep(e), TailStep(e, HeadStep(e)),
                     Animating(e, HeadStep(e)))

\* Ellipse.update(dt): the entity after the call and the returned flag
EllipseUpdate(e, cfg, hi) ==
    IF e.finished THEN [e |-> e, ret |-> FALSE]
    ELSE UpdateSteps(e, cfg, hi, HeadStep(e), TailStep(e, HeadStep(e)),
                     Animating(e, HeadStep(e)))

\* Ellipse.updateOriginGeometry(geometry): dispose the outline, install a new one
UpdateOriginGeometry(e) == [e EXCEPT !.originOutline = e.originOutline + 1]

----------------------------------------------------------------------------
(* EllipseSet.ts *)

\* a lerp factor of 1.1 instead of 0.1
lerpFactor_Over == SCALE + SCALE \div 10

lerpFactor == 100

DriftStep == 50

\* the rotation difference taken as it is, without the two while loops
WrapDiff_None(diff) == diff

\* the rotation difference corrected by one turn at most
WrapDiff_Once(diff) ==
    IF diff > Pi THEN diff - TwoPi
    ELSE IF diff < -Pi THEN diff + TwoPi
    ELSE diff

\* the two while loops of updateCycle that bring diff into [-pi, pi]
RECURSIVE WrapDiff(_)
WrapDiff(diff) ==
    IF diff > Pi THEN WrapDiff(diff - TwoPi)
    ELSE IF diff < -Pi THEN WrapDiff(diff + TwoPi)
    ELSE diff

\* the targets of one drift cycle, from State.drift (time already advanced)
CycleTargets(d, it, scale) ==
    LET rotDrift == Mul(Sin(Mul(d.time, d.speed)), d.amplitude)
        sizeVar == SCALE + Mul(Sin(Mul(d.time, 300)), d.sizeVarAmp)
        curveVar == SCALE + Mul(Cos(Mul(d.time, 400)), d.curveVarAmp)
    IN  [rot |-> it.rotation + rotDrift,
         x |-> Mul(Mul(it.xRadius, scale), sizeVar),
         y |-> Mul(Mul(it.yRadius, scale), curveVar)]

\* a drift cycle that puts the radii on the targets at once
DriftEllipse_Jump(e, t, cfg, hi) ==
    ResetDrawingParams(
        [e EXCEPT !.xRadius = t.x,
                  !.yRadius = t.y,
                  !.rotation = e.rotation
                               + Mul(t.rot - e.rotation, lerpFactor)],
        cfg, hi)

\* a drift cycle that moves the shape and lets the drawing go on
DriftEllipse_NoReset(e, t, cfg, hi) ==
    UpdateGeometry(
        [e EXCEPT !.xRadius = e.xRadius + Mul(t.x - e.xRadius, lerpFactor),
                  !.yRadius = e.yRadius + Mul(t.y - e.yRadius, lerpFactor),
                  !.rotation = e.rotation
                               + Mul(WrapDiff(t.rot - e.rotation), lerpFactor)],
        cfg, cfg.taperEnabled, hi)

\* the body of updateCycle's forEach for one ellipse
DriftEllipse(e, t, cfg, hi) ==
    ResetDrawingParams(
        [e EXCEPT !.xRadius = e.xRadius + Mul(t.x - e.xRadius, lerpFactor),
                  !.yRadius = e.yRadius + Mul(t.y - e.yRadius, lerpFactor),
                  !.rotation = e.rotation
                               + Mul(WrapDiff(t.rot - e.rotation), lerpFactor)],
        cfg, hi)

NoTargets == [rot |-> 0, x |-> 0, y |-> 0]

\* a drift cycle that moves and resets the first ellipse of the set only
DriftAll_FirstOnly(set, cfg, d, t, hi) ==
    [set |-> [set EXCEPT !.ellipses =
                [i \in DOMAIN set.ellipses |->
                    IF i = 1 THEN DriftEllipse(set.ellipses[i], t, cfg, hi)
                    ELSE set.ellipses[i]]],
     drift |-> d, ran |-> TRUE, t |-> t]

\* the forEach of updateCycle with the targets t; d is State.drift
DriftAll(set, cfg, d, t, hi) ==
    [set |-> [set EXCEPT !.ellipses =
                [i \in DOMAIN set.ellipses |->
                    DriftEllipse(set.ellipses[i], t, cfg, hi)]],
     drift |-> d, ran |-> TRUE, t |-> t]

\* updateCycle once State.drift.time is advanced
RunCycle(set, cfg, d, it, hi) ==
    DriftAll(set, cfg, d, CycleTargets(d, it, set.radiusScale), hi)

\* updateCycle without the test of State.hasInteracted
UpdateCycle_Ungated(set, p, d, it, hi) ==
    RunCycle(set, [ConfigOf(p) EXCEPT !.radiusScale = set.radiusScale],
             [d EXCEPT !.time = d.time + DriftStep], it, hi)

\* updateCycle that advances State.drift.time before it tests hasInteracted
UpdateCycle_TimeFirst(set, p, d, it, hi) ==
    IF ~hi THEN [set |-> set, drift |-> [d EXCEPT !.time = d.time + DriftStep],
                 ran |-> FALSE, t |-> NoTargets]
    ELSE RunCycle(set, [ConfigOf(p) EXCEPT !.radiusScale = set.radiusScale],
                  [d EXCEPT !.time = d.time + DriftStep], it, hi)

\* EllipseSetBase.updateCycle(): the set, State.drift and the targets after it
UpdateCycle(set, p, d, it, hi) ==
    IF ~hi THEN [set |-> set, drift |-> d, ran |-> FALSE, t |-> NoTargets]
    ELSE RunCycle(set, [ConfigOf(p) EXCEPT !.radiusScale = set.radiusScale],
                  [d EXCEPT !.time = d.time + DriftStep], it, hi)

\* the forEach of update: upd holds the result of each e.update(dt)
CollectUpdates(c, upd) ==
    [set |-> [c.set EXCEPT !.ellipses = [i \in DOMAIN upd |-> upd[i].e]],
     drift |-> c.drift, ran |-> c.ran, t |-> c.t,
     ret |-> \E i \in DOMAIN upd : upd[i].ret]

\* update(dt) after the drift-cycle test; c is the outcome of that test
UpdateAll(c, cfg, hi) ==
    IF ~hi THEN [set |-> c.set, drift |-> c.drift, ran |-> c.ran,
                 t |-> c.t, ret |-> FALSE]
    ELSE CollectUpdates(c, [i \in DOMAIN c.set.ellipses |->
                               EllipseUpdate(c.set.ellipses[i], cfg, hi)])

\* update(dt) that runs the drift-cycle test without storing lastCycleTime
SetUpdate_KeepTime(set, p, dt, d, it, hi) ==
    UpdateAll(IF dt - set.lastCycleTime > CYCLE_INTERVAL
              THEN UpdateCycle(set, p, d, it, hi)
              ELSE [set |-> set, drift |-> d, ran |-> FALSE, t |-> NoTargets],
              [ConfigOf(p) EXCEPT !.radiusScale = set.radiusScale], hi)

\* update(dt) that updates the ellipses first and runs the drift cycle last
SetUpdate_CycleLast(set, p, dt, d, it, hi) ==
    IF dt - set.lastCycleTime > CYCLE_INTERVAL
    THEN LET c == UpdateCycle(
                      [UpdateAll([set |-> set, drift |-> d, ran |-> FALSE,
                                  t |-> NoTargets],
                                 [ConfigOf(p) EXCEPT
                                      !.radiusScale = set.radiusScale],
                                 hi).set EXCEPT !.lastCycleTime = dt],
                      p, d, it, hi)
         IN  [set |-> c.set, drift |-> c.drift, ran |-> c.ran, t |-> c.t,
              ret |-> hi]
    ELSE UpdateAll([set |-> set, drift |-> d, ran |-> FALSE, t |-> NoTargets],
                   [ConfigOf(p) EXCEPT !.radiusScale = set.radiusScale], hi)

\* EllipseSetBase.update(dt)
SetUpdate(set, p, dt, d, it, hi) ==
    UpdateAll(IF dt - set.lastCycleTime > CYCLE_INTERVAL
              THEN UpdateCycle([set EXCEPT !.lastCycleTime = dt], p, d, it, hi)
              ELSE [set |-> set, drift |-> d, ran |-> FALSE, t |-> NoTargets],
              [ConfigOf(p) EXCEPT !.radiusScale = set.radiusScale], hi)

\* EllipseSetBase.setVisible(visible)
SetVisible(set, visible, hi) ==
    [set EXCEPT !.ellipses =
        [i \in DOMAIN set.ellipses |->
            LET e == set.ellipses[i]
                c == [e EXCEPT !.containerVisible = visible]
            IN  IF visible
                THEN [c EXCEPT !.originVisible = TRUE,
                               !.meshesVisible =
                                   [m \in DOMAIN e.meshesVisible |-> hi]]
                ELSE c]]

\* Page2EllipseSet.regenerateOrigins()
RegenerateOrigins(set) ==
    [set EXCEPT !.ellipses =
        [i \in DOMAIN set.ellipses |-> UpdateOriginGeometry(set.ellipses[i])]]

\* new Page1EllipseSet(scene, config) / new Page2EllipseSet(scene, config)
NewSet(p, it, hi) ==
    LET cfg == ConfigOf(p)
    IN  [lastCycleTime |-> 0,
         radiusScale |-> cfg.radiusScale,
         ellipses |-> [i \in 1..cfg.count |->
             NewEllipse(cfg, Mul(it.xRadius, cfg.radiusScale),
                        Mul(it.yRadius, cfg.radiusScale), it.rotation, hi)]]

----------------------------------------------------------------------------
(* Utils.ts *)

\* the values Math.random() is drawn from, in [0, 1)
Rand == {0, 100, 999}

\* randomizeShapeConditions that also starts the drift time over
RandomizeShapeConditions_ResetTime(d) ==
    { [d EXCEPT !.time = 0,
                !.speed = sgn * (200 + Mul(r1, 1000)),
                !.amplitude = 20 + Mul(r2, 150),
                !.sizeVarAmp = 300 + Mul(r3, 500),
                !.curveVarAmp = 100 + Mul(r4, 400)] :
        r1 \in Rand, r2 \in Rand, r3 \in Rand, r4 \in Rand, sgn \in {-1, 1} }

\* randomizeShapeConditions with size and curvature amplitudes of up to 5.3
RandomizeShapeConditions_Wide(d) ==
    { [d EXCEPT !.speed = sgn * (200 + Mul(r1, 1000)),
                !.amplitude = 20 + Mul(r2, 150),
                !.sizeVarAmp = 300 + Mul(r3, 5000),
                !.curveVarAmp = 300 + Mul(r4, 5000)] :
        r1 \in Rand, r2 \in Rand, r3 \in Rand, r4 \in Rand, sgn \in {-1, 1} }

\* randomizeShapeConditions(): the drift records it can leave
RandomizeShapeConditions(d) ==
    { [d EXCEPT !.speed = sgn * (200 + Mul(r1, 1000)),
                !.amplitude = 20 + Mul(r2, 150),
                !.sizeVarAmp = 300 + Mul(r3, 500),
                !.curveVarAmp = 100 + Mul(r4, 400)] :
        r1 \in Rand, r2 \in Rand, r3 \in Rand, r4 \in Rand, sgn \in {-1, 1} }

\* A value of Math.random() for the vertex count, an IEEE double in [0, 1): a
\* fixed-point value milli (ulps = 0), or one of the doubles next below 1.0,
\* 1 - ulps * 2^-53 (milli = SCALE, ulps >= 1).
TopUlps == 4

RandomDoubles ==
    {[milli |-> r, ulps |-> 0] : r \in Rand}
        \cup {[milli |-> SCALE, ulps |-> j] : j \in 1..TopUlps}

\* the largest power of two that is at most n
RECURSIVE Binade(_)
Binade(n) == IF n < 2 THEN 1 ELSE 2 * Binade(n \div 2)

\* the distance between two neighbouring doubles just below the integer w,
\* in units of 2^-53 (53-bit significand)
SpacingBelow(w) == IF Binade(w) = w THEN w ELSE 2 * Binade(w)

\* IEEE round-to-nearest, ties to even, of w - below * 2^-53 onto the doubles
\* spaced grid * 2^-53 apart: the distance below w of the rounded result
RoundBelow(below, grid) ==
    IF 2 * (below % grid) < grid THEN (below \div grid) * grid
    ELSE IF 2 * (below % grid) > grid THEN (below \div grid + 1) * grid
    ELSE IF (below \div grid) % 2 = 0 THEN (below \div grid) * grid
    ELSE (below \div grid + 1) * grid

\* the options the two sets pass to createParticleGeometry
ShapeOptions(p) ==
    IF p = PAGE1
    THEN [minPoints |-> 5, maxPoints |-> 8, irregularity |-> 400]
    ELSE [minPoints |-> 6, maxPoints |-> 9, irregularity |-> 200]

\* the baseRadius argument: originScaleFactor * this.config.radiusScale
BaseRadius(cfg) ==
    Mul(IF cfg.originScale # 0 THEN cfg.originScale
        ELSE DEFAULT_ORIGIN_SCALE, cfg.radiusScale)

\* Math.floor(minPoints + Math.random() * (maxPoints - minPoints + 1)): the
\* product and the sum are each rounded to a double
NumPoints(o, d) ==
    IF d.ulps = 0
    THEN o.minPoints + (d.milli * (o.maxPoints - o.minPoints + 1)) \div SCALE
    ELSE IF RoundBelow(RoundBelow(d.ulps * (o.maxPoints - o.minPoints + 1),
                                  SpacingBelow(o.maxPoints - o.minPoints + 1)),
                       SpacingBelow(o.maxPoints + 1)) = 0
         THEN o.maxPoints + 1
         ELSE o.maxPoints

\* one pass of the loop: vertex i of numPoints, with the draws dj (angle
\* jitter) and dr (radius)
ShapeVertex(baseRadius, o, numPoints, i, dj, dr) ==
    LET angleStep == TDiv(TwoPi, numPoints)
        theta == i * angleStep + Mul(Mul(dj - 500, angleStep), 500)
        r == Mul(baseRadius,
                 SCALE + Mul(Mul(dr - 500, o.irregularity), 2 * SCALE))
    IN  [r |-> r, x |-> Mul(Cos(theta), r), y |-> Mul(Sin(theta), r)]

\* the outline of numPoints vertices; even and odd are the two draws of the
\* vertices of even and of odd index
ShapeOutline(baseRadius, o, numPoints, even, odd) ==
    [numPoints |-> numPoints,
     vertices |-> [i \in 0..(numPoints - 1) |->
                     IF i % 2 = 0
                     THEN ShapeVertex(baseRadius, o, numPoints, i,
                                      even[1], even[2])
                     ELSE ShapeVertex(baseRadius, o, numPoints, i,
                                      odd[1], odd[2])]]

\* createParticleGeometry(baseRadius, options): the shape handed to
\* THREE.ExtrudeGeometry
CreateParticleGeometry(baseRadius, o, d, even, odd) ==
    ShapeOutline(baseRadius, o, NumPoints(o, d), even, odd)

----------------------------------------------------------------------------
(* State.ts and main.ts *)

TickStep == 16

StrongBlurTime == 400

\* the wall-clock time between two frames: 4 ms (a 250 Hz display) and
\* 17 ms (a 60 Hz display)
FrameDts == {4, 17}

Other(p) == IF p = PAGE1 THEN PAGE2 ELSE PAGE1

InitialTarget == [xRadius |-> 1000, yRadius |-> 500, rotation |-> 6000]

\* the sizes of the window, in pixels: a desktop and a phone
Viewports == {[w |-> 1920, h |-> 1080], [w |-> 375, h |-> 667]}

InitialViewport == [w |-> 1920, h |-> 1080]

\* getPage2Scale() of the earlier main.ts: 9.0 * (minDim / 1000) * 1.2
GetPage2Scale(v) ==
    Mul(Mul(9000, TDiv(Min(v.w, v.h) * SCALE, 1000)), 1200)

InitialDrift == [time |-> 0, speed |-> 500, amplitude |-> 50,
                 sizeVarAmp |-> 300, curveVarAmp |-> 300]

NoEllipse == NewEllipse(Page1Config, 0, 0, 0, FALSE)

Last(op, p, i, ret, pre, preSet, ran, t, switched) ==
    [op |-> op, page |-> p, idx |-> i, ret |-> ret, pre |-> pre,
     preSet |-> preSet, ran |-> ran, t |-> t, switched |-> switched]

\* State as exported by State.ts, and initEllipseAnimation() up to animate()
Init ==
    /\ hasInteracted = FALSE
    /\ currentMode = PAGE1
    /\ modeTimer = 0
    /\ nextModeSwitchDuration \in {5000 + Mul(r, 5000) : r \in Rand}
    /\ modeSwitchCount = 0
    /\ isBlurred = TRUE
    /\ blurPhase = "NORMAL"
    /\ blurTimer = 0
    /\ nextBlurSwitchDuration \in {8000 + Mul(r, 8000) : r \in Rand}
    /\ interactionTarget = InitialTarget
    /\ drift = InitialDrift
    /\ sets = [p \in Mode |->
                 SetVisible(NewSet(p, InitialTarget, FALSE), p = PAGE1, FALSE)]
    /\ elapsed = 0
    /\ frameDt \in FrameDts
    /\ overlay \in BOOLEAN
    /\ viewport = InitialViewport
    /\ ticks = 0
    /\ last = Last("init", PAGE1, 0, FALSE, NoEllipse, <<>>, FALSE,
                   NoTargets, FALSE)

\* a mode switch that shows the new set and leaves the old one on display
SwitchSets_NoHide(ss, newMode, hi) ==
    IF newMode = PAGE2
    THEN [ss EXCEPT ![PAGE2] = SetVisible(RegenerateOrigins(ss[PAGE2]), TRUE, hi)]
    ELSE [ss EXCEPT ![PAGE1] = SetVisible(ss[PAGE1], TRUE, hi)]

\* a mode switch that regenerates the outlines of page 2 in both directions
SwitchSets_RegenerateBoth(ss, newMode, hi) ==
    IF newMode = PAGE2
    THEN [ss EXCEPT ![PAGE1] = SetVisible(ss[PAGE1], FALSE, hi),
                    ![PAGE2] = SetVisible(RegenerateOrigins(ss[PAGE2]), TRUE, hi)]
    ELSE [ss EXCEPT ![PAGE2] = SetVisible(RegenerateOrigins(ss[PAGE2]), FALSE, hi),
                    ![PAGE1] = SetVisible(ss[PAGE1], TRUE, hi)]

\* the mode-switching block of animate(): the two sets after it
SwitchSets(ss, newMode, hi) ==
    IF newMode = PAGE2
    THEN [ss EXCEPT ![PAGE1] = SetVisible(ss[PAGE1], FALSE, hi),
                    ![PAGE2] = SetVisible(RegenerateOrigins(ss[PAGE2]), TRUE, hi)]
    ELSE [ss EXCEPT ![PAGE2] = SetVisible(ss[PAGE2], FALSE, hi),
                    ![PAGE1] = SetVisible(ss[PAGE1], TRUE, hi)]

\* State.drift after the mode-switching block
DriftAfterSwitch(d, switch, count) ==
    IF switch /\ count >= 3 THEN {d} \cup RandomizeShapeConditions(d) ELSE {d}

\* blur switching with a high state of 0.2 to 0.3 time units
BlurSwitching_ShortHigh ==
    LET bt == blurTimer + TickStep
        phase == IF isBlurred /\ blurPhase = "STRONG" /\ bt > StrongBlurTime
                 THEN "NORMAL" ELSE blurPhase
    IN  IF bt > nextBlurSwitchDuration
        THEN /\ blurTimer' = 0
             /\ isBlurred' = ~isBlurred
             /\ nextBlurSwitchDuration' \in
                    IF ~isBlurred THEN {200 + Mul(r, 100) : r \in Rand}
                    ELSE {3000 + Mul(r, 3000) : r \in Rand}
             /\ blurPhase' = IF overlay /\ ~isBlurred THEN "STRONG" ELSE phase
        ELSE /\ blurTimer' = bt
             /\ blurPhase' = phase
             /\ UNCHANGED <<isBlurred, nextBlurSwitchDuration>>

\* the blur-switching block of animate()
BlurSwitching ==
    LET bt == blurTimer + TickStep
        phase == IF isBlurred /\ blurPhase = "STRONG" /\ bt > StrongBlurTime
                 THEN "NORMAL" ELSE blurPhase
    IN  IF bt > nextBlurSwitchDuration
        THEN /\ blurTimer' = 0
             /\ isBlurred' = ~isBlurred
             /\ nextBlurSwitchDuration' \in
                    IF ~isBlurred THEN {8000 + Mul(r, 8000) : r \in Rand}
                    ELSE {3000 + Mul(r, 3000) : r \in Rand}
             /\ blurPhase' = IF overlay /\ ~isBlurred THEN "STRONG" ELSE phase
        ELSE /\ blurTimer' = bt
             /\ blurPhase' = phase
             /\ UNCHANGED <<isBlurred, nextBlurSwitchDuration>>

\* a frame whose update stamps lastCycleTime on the hidden set as well
Render_StampBoth(mid, mode, switch, u) ==
    /\ sets' = [mid EXCEPT ![mode] = u.set,
                           ![Other(mode)].lastCycleTime = u.set.lastCycleTime]
    /\ drift' = u.drift
    /\ last' = Last("tick", mode, 0, u.ret, NoEllipse, mid[mode].ellipses,
                    u.ran, u.t, switch)

\* the end of animate(): u is the outcome of update(dt) on the active set
Render(mid, mode, switch, u) ==
    /\ sets' = [mid EXCEPT ![mode] = u.set]
    /\ drift' = u.drift
    /\ last' = Last("tick", mode, 0, u.ret, NoEllipse, mid[mode].ellipses,
                    u.ran, u.t, switch)

\* animate() from the mode switch on: mid are the sets after the mode-switching
\* block, dm is State.drift after it
Frame(dt, mode, switch, mid, dm) ==
    Render(mid, mode, switch,
           SetUpdate(mid[mode], mode, dt, dm, interactionTarget, hasInteracted))

\* a mode switch that lets the timer run on
ModeSwitch_KeepTimer(dt, mode, count) ==
    /\ modeTimer' = modeTimer + TickStep
    /\ nextModeSwitchDuration' \in {4000 + Mul(r, 12000) : r \in Rand}
    /\ currentMode' = mode
    /\ modeSwitchCount' = count
    /\ \E dm \in DriftAfterSwitch(drift, TRUE, count) :
          Frame(dt, mode, TRUE, SwitchSets(sets, mode, hasInteracted), dm)

\* the mode-switching block of animate() when the timer has run out
ModeSwitch(dt, mode, count) ==
    /\ modeTimer' = 0
    /\ nextModeSwitchDuration' \in {4000 + Mul(r, 12000) : r \in Rand}
    /\ currentMode' = mode
    /\ modeSwitchCount' = count
    /\ \E dm \in DriftAfterSwitch(drift, TRUE, count) :
          Frame(dt, mode, TRUE, SwitchSets(sets, mode, hasInteracted), dm)

\* a frame without a page switch that re-randomizes the shape conditions
\* whenever three pages have been switched
NoModeSwitch_Randomize(dt) ==
    /\ modeTimer' = modeTimer + TickStep
    /\ UNCHANGED <<nextModeSwitchDuration, currentMode, modeSwitchCount>>
    /\ \E dm \in DriftAfterSwitch(drift, TRUE, modeSwitchCount) :
          Frame(dt, currentMode, FALSE, sets, dm)

\* the mode-switching block of animate() when it has not
NoModeSwitch(dt) ==
    /\ modeTimer' = modeTimer + TickStep
    /\ UNCHANGED <<nextModeSwitchDuration, currentMode, modeSwitchCount>>
    /\ Frame(dt, currentMode, FALSE, sets, drift)

\* one call of animate(): one frame at elapsed time dt
Animate(dt) ==
    /\ elapsed' = dt
    /\ ticks' = ticks + 1
    /\ BlurSwitching
    /\ IF modeTimer + TickStep > nextModeSwitchDuration
       THEN ModeSwitch(dt, Other(currentMode), modeSwitchCount + 1)
       ELSE NoModeSwitch(dt)
    /\ UNCHANGED <<hasInteracted, interactionTarget, frameDt, overlay,
                   viewport>>

\* requestAnimationFrame(animate): the next frame
Tick ==
    /\ ticks < MaxTicks
    /\ Animate(IF ticks = 0 THEN 0 ELSE elapsed + frameDt)

\* a pointerdown listener that toggles the flag
PointerDown_Toggle ==
    /\ hasInteracted' = ~hasInteracted
    /\ last' = Last("pointerdown", currentMode, 0, FALSE, NoEllipse, <<>>,
                    FALSE, NoTargets, FALSE)
    /\ UNCHANGED <<currentMode, modeTimer, nextModeSwitchDuration,
                   modeSwitchCount, isBlurred, blurPhase, blurTimer,
                   nextBlurSwitchDuration, interactionTarget, drift, sets,
                   elapsed, frameDt, overlay, viewport, ticks>>

\* the pointerdown listener
PointerDown ==
    /\ hasInteracted' = TRUE
    /\ last' = Last("pointerdown", currentMode, 0, FALSE, NoEllipse, <<>>,
                    FALSE, NoTargets, FALSE)
    /\ UNCHANGED <<currentMode, modeTimer, nextModeSwitchDuration,
                   modeSwitchCount, isBlurred, blurPhase, blurTimer,
                   nextBlurSwitchDuration, interactionTarget, drift, sets,
                   elapsed, frameDt, overlay, viewport, ticks>>

\* the resize listener: camera.aspect and renderer.setSize only
Resize ==
    /\ viewport' \in Viewports \ {viewport}
    /\ last' = Last("resize", currentMode, 0, FALSE, NoEllipse, <<>>,
                    FALSE, NoTargets, FALSE)
    /\ UNCHANGED <<hasInteracted, currentMode, modeTimer,
                   nextModeSwitchDuration, modeSwitchCount, isBlurred,
                   blurPhase, blurTimer, nextBlurSwitchDuration,
                   interactionTarget, drift, sets, elapsed, frameDt, overlay,
                   ticks>>

\* input events arrive between frames; the model lets them in during the
\* first frames after start and after each page switch
InWindow == modeTimer <= ActivateWindow * TickStep

Activate == InWindow /\ PointerDown

ResizeEvent == InWindow /\ last.op # "resize" /\ Resize

Next == Tick \/ Activate \/ ResizeEvent

Spec == Init /\ [][Next]_vars

----------------------------------------------------------------------------
(* The frames around the third page switch.  The run starts at the end of   *)
(* the frame of the second page switch, frame 564 of a run of Spec with no  *)
(* pointerdown so far, 17 ms between frames and Math.random() = 0, 0 and    *)
(* 0.999 for the two page durations and the blur duration: page 1 is on     *)
(* display again, no ellipse has moved, the outline of page 2 has been      *)
(* regenerated once.                                                        *)

MaxLateTicks == 818

InitLate ==
    /\ hasInteracted = FALSE
    /\ currentMode = PAGE1
    /\ modeTimer = 0
    /\ nextModeSwitchDuration = 4000
    /\ modeSwitchCount = 2
    /\ isBlurred = TRUE
    /\ blurPhase = "NORMAL"
    /\ blurTimer = 564 * TickStep
    /\ nextBlurSwitchDuration = 8000 + Mul(999, 8000)
    /\ interactionTarget = InitialTarget
    /\ drift = InitialDrift
    /\ sets = [p \in Mode |->
                 IF p = PAGE1
                 THEN [SetVisible(NewSet(p, InitialTarget, FALSE), TRUE, FALSE)
                          EXCEPT !.lastCycleTime = 563 * 17]
                 ELSE [SetVisible(RegenerateOrigins(
                                      NewSet(p, InitialTarget, FALSE)),
                                  FALSE, FALSE)
                          EXCEPT !.lastCycleTime = 525 * 17]]
    /\ elapsed = 563 * 17
    /\ frameDt = 17
    /\ overlay = TRUE
    /\ viewport = InitialViewport
    /\ ticks = 564
    /\ last = Last("tick", PAGE1, 0, FALSE, NoEllipse,
                   SetVisible(NewSet(PAGE1, InitialTarget, FALSE), TRUE,
                              FALSE).ellipses,
                   FALSE, NoTargets, TRUE)

TickLate ==
    /\ ticks < MaxLateTicks
    /\ Animate(elapsed + frameDt)

NextLate == TickLate \/ Activate \/ ResizeEvent

SpecLate == InitLate /\ [][NextLate]_vars

----------------------------------------------------------------------------
(* The two timers of animate() on their own, from the second page switch to *)
(* the third.  The run starts at the end of frame 564 as above, with any    *)
(* duration drawn for the third page and with or without the element        *)
(* 'blur-overlay' in the document; no input event arrives.  It ends         *)
(* MaxIdleTicks frames after the third page switch.                         *)

MaxIdleTicks == 3

InitIdle ==
    /\ hasInteracted = FALSE
    /\ currentMode = PAGE1
    /\ modeTimer = 0
    /\ nextModeSwitchDuration \in {4000 + Mul(r, 12000) : r \in Rand}
    /\ modeSwitchCount = 2
    /\ isBlurred = TRUE
    /\ blurPhase = "NORMAL"
    /\ blurTimer = 564 * TickStep
    /\ nextBlurSwitchDuration = 8000 + Mul(999, 8000)
    /\ interactionTarget = InitialTarget
    /\ drift = InitialDrift
    /\ sets = [p \in Mode |->
                 IF p = PAGE1
                 THEN [SetVisible(NewSet(p, InitialTarget, FALSE), TRUE, FALSE)
                          EXCEPT !.lastCycleTime = 563 * 17]
                 ELSE [SetVisible(RegenerateOrigins(
                                      NewSet(p, InitialTarget, FALSE)),
                                  FALSE, FALSE)
                          EXCEPT !.lastCycleTime = 525 * 17]]
    /\ elapsed = 563 * 17
    /\ frameDt = 17
    /\ overlay \in BOOLEAN
    /\ viewport = InitialViewport
    /\ ticks = 564
    /\ last = Last("tick", PAGE1, 0, FALSE, NoEllipse,
                   SetVisible(NewSet(PAGE1, InitialTarget, FALSE), TRUE,
                              FALSE).ellipses,
                   FALSE, NoTargets, TRUE)

TickIdle ==
    /\ modeSwitchCount < 3 \/ modeTimer < MaxIdleTicks * TickStep
    /\ Animate(elapsed + frameDt)

SpecIdle == InitIdle /\ [][TickIdle]_vars

----------------------------------------------------------------------------
(* The operations of one Ellipse and one set called directly, in any order *)

timers == <<currentMode, modeTimer, nextModeSwitchDuration, modeSwitchCount,
            isBlurred, blurPhase, blurTimer, nextBlurSwitchDuration,
            elapsed, frameDt, overlay, viewport, ticks>>

CfgOfSet(p) == [ConfigOf(p) EXCEPT !.radiusScale = sets[p].radiusScale]

\* e.update(dt) on ellipse i of set p; u is what the call returns
DoUpdate(p, i, u) ==
    /\ sets[p].ellipses[i].calls < MaxCalls
    /\ sets' = [sets EXCEPT ![p].ellipses[i] = u.e]
    /\ last' = Last("update", p, i, u.ret, sets[p].ellipses[i],
                    sets[p].ellipses, FALSE, NoTargets, FALSE)
    /\ UNCHANGED <<hasInteracted, interactionTarget, drift, timers>>

CallUpdate(p, i) ==
    DoUpdate(p, i, EllipseUpdate(sets[p].ellipses[i], CfgOfSet(p),
                                 hasInteracted))

\* e.resetDrawingParams() on ellipse i of set p
CallReset(p, i) ==
    /\ sets' = [sets EXCEPT ![p].ellipses[i] =
                    ResetDrawingParams(sets[p].ellipses[i], CfgOfSet(p),
                                       hasInteracted)]
    /\ last' = Last("reset", p, i, FALSE, sets[p].ellipses[i],
                    sets[p].ellipses, FALSE, NoTargets, FALSE)
    /\ UNCHANGED <<hasInteracted, interactionTarget, drift, timers>>

\* set.updateCycle() on set p; c is its outcome
DoCycle(p, c) ==
    /\ drift.time < MaxCycles * DriftStep
    /\ sets' = [sets EXCEPT ![p] = c.set]
    /\ drift' = c.drift
    /\ last' = Last("cycle", p, 0, FALSE, NoEllipse, sets[p].ellipses,
                    c.ran, c.t, FALSE)
    /\ UNCHANGED <<hasInteracted, interactionTarget, timers>>

CallCycle(p) ==
    DoCycle(p, UpdateCycle(sets[p], p, drift, interactionTarget, hasInteracted))

CallPointerDown == ~hasInteracted /\ PointerDown

\* The ellipses of one set are built alike and treated alike, so the direct
\* calls go to the first ellipse of a set.
UnderTest == 1

NextApi ==
    \/ \E p \in Mode : CallUpdate(p, UnderTest)
    \/ \E p \in Mode : CallReset(p, UnderTest)
    \/ \E p \in Mode : CallCycle(p)
    \/ CallPointerDown

\* the timers play no part in the direct calls: one initial state
InitApi ==
    /\ Init
    /\ nextModeSwitchDuration = 5000
    /\ nextBlurSwitchDuration = 8000
    /\ frameDt = 17
    /\ overlay

SpecApi == InitApi /\ [][NextApi]_vars

----------------------------------------------------------------------------
(* The drift cycle as a function of the rotations: the ellipses were built  *)
(* with rotation cur, State.interactionTarget.rotation is tgt               *)

RotInputs == {Pi - 100, -Pi + 100, 0, 6000, 6000 + TwoPi - 200, Pi, -Pi}

RotTargets == {-Pi + 100, Pi - 100, 0, 6000}

InitRot ==
    /\ hasInteracted = FALSE
    /\ currentMode = PAGE1
    /\ modeTimer = 0
    /\ nextModeSwitchDuration = 5000
    /\ modeSwitchCount = 0
    /\ isBlurred = TRUE
    /\ blurPhase = "NORMAL"
    /\ blurTimer = 0
    /\ nextBlurSwitchDuration = 8000
    /\ \E tgt \in RotTargets :
          interactionTarget = [InitialTarget EXCEPT !.rotation = tgt]
    /\ \E amp \in {0, 50} : drift = [InitialDrift EXCEPT !.amplitude = amp]
    /\ \E cur \in RotInputs :
          sets = [p \in Mode |->
                    SetVisible(NewSet(p, [InitialTarget EXCEPT !.rotation = cur],
                                      FALSE), p = PAGE1, FALSE)]
    /\ elapsed = 0
    /\ frameDt = 17
    /\ overlay = TRUE
    /\ viewport = InitialViewport
    /\ ticks = 0
    /\ last = Last("init", PAGE1, 0, FALSE, NoEllipse, <<>>, FALSE,
                   NoTargets, FALSE)

NextRot ==
    \/ \E p \in Mode : CallCycle(p)
    \/ CallPointerDown

SpecRot == InitRot /\ [][NextRot]_vars

----------------------------------------------------------------------------
(* updateGeometry as a function of the ellipse and of its taperEnabled       *)
(* argument: ellipses built on drawn radii, the first ellipse of the set on  *)
(* display advanced by update, and updateGeometry called on it with either   *)
(* value of the argument                                                     *)

GeomRadii == {[InitialTarget EXCEPT !.xRadius = x, !.yRadius = y] :
                 x \in {1000, 100, 10, 0}, y \in {500, 0}}

\* e.updateGeometry(taper) on ellipse i of set p
CallGeometry(p, i, taper) ==
    /\ sets' = [sets EXCEPT ![p].ellipses[i] =
                    UpdateGeometry(sets[p].ellipses[i], CfgOfSet(p), taper,
                                   hasInteracted)]
    /\ last' = Last("geometry", p, i, FALSE, sets[p].ellipses[i],
                    sets[p].ellipses, FALSE, NoTargets, FALSE)
    /\ UNCHANGED <<hasInteracted, interactionTarget, drift, timers>>

InitGeom ==
    /\ hasInteracted = FALSE
    /\ currentMode \in Mode
    /\ modeTimer = 0
    /\ nextModeSwitchDuration = 5000
    /\ modeSwitchCount = 0
    /\ isBlurred = TRUE
    /\ blurPhase = "NORMAL"
    /\ blurTimer = 0
    /\ nextBlurSwitchDuration = 8000
    /\ interactionTarget \in GeomRadii
    /\ drift = InitialDrift
    /\ sets = [p \in Mode |->
                 SetVisible(NewSet(p, interactionTarget, FALSE),
                            p = currentMode, FALSE)]
    /\ elapsed = 0
    /\ frameDt = 17
    /\ overlay = TRUE
    /\ viewport = InitialViewport
    /\ ticks = 0
    /\ last = Last("init", PAGE1, 0, FALSE, NoEllipse, <<>>, FALSE,
                   NoTargets, FALSE)

NextGeom ==
    \/ CallUpdate(currentMode, UnderTest)
    \/ \E taper \in BOOLEAN : CallGeometry(currentMode, UnderTest, taper)
    \/ CallPointerDown

SpecGeom == InitGeom /\ [][NextGeom]_vars

----------------------------------------------------------------------------
(* createParticleGeometry as a function of its options and of the values    *)
(* Math.random() returns: the calls of createEllipse of the two sets         *)

\* the values of Math.random() drawn for the angle jitter: the two ends
JitterDraws == {0, 999}

\* createParticleGeometry(originScaleFactor * radiusScale, options) as set p
\* calls it
CallCreateParticleGeometry(p) ==
    /\ \E d \in RandomDoubles, even \in JitterDraws \X Rand,
          odd \in JitterDraws \X Rand :
          last' = Last("shape", p, 0,
                       CreateParticleGeometry(BaseRadius(CfgOfSet(p)),
                                              ShapeOptions(p), d, even, odd),
                       NoEllipse, <<>>, FALSE, NoTargets, FALSE)
    /\ UNCHANGED <<hasInteracted, interactionTarget, drift, sets, timers>>

NextShape == \E p \in Mode : CallCreateParticleGeometry(p)

SpecShape == InitApi /\ [][NextShape]_vars

----------------------------------------------------------------------------
(* update(dt) of a set called directly, between update calls on its first   *)
(* ellipse, which take that ellipse ahead of the others                      *)

\* set.update(dt) on set p; u is its outcome
DoSetUpdate(p, dt, u) ==
    /\ \E i \in DOMAIN sets[p].ellipses : sets[p].ellipses[i].calls < MaxCalls
    /\ dt > elapsed => elapsed < MaxCycles * (CYCLE_INTERVAL + 1)
    /\ elapsed' = dt
    /\ sets' = [sets EXCEPT ![p] = u.set]
    /\ drift' = u.drift
    /\ last' = Last("setupdate", p, 0, u.ret, NoEllipse, sets[p].ellipses,
                    u.ran, u.t, FALSE)
    /\ UNCHANGED <<hasInteracted, interactionTarget, currentMode, modeTimer,
                   nextModeSwitchDuration, modeSwitchCount, isBlurred,
                   blurPhase, blurTimer, nextBlurSwitchDuration, frameDt,
                   overlay, viewport, ticks>>

\* the call comes at once or more than CYCLE_INTERVAL after the last one
CallSetUpdate(p) ==
    \E dt \in {elapsed, elapsed + CYCLE_INTERVAL + 1} :
        DoSetUpdate(p, dt, SetUpdate(sets[p], p, dt, drift, interactionTarget,
                                     hasInteracted))

\* the calls go to the set on display, the one animate() updates
NextSet ==
    \/ CallUpdate(currentMode, UnderTest)
    \/ CallSetUpdate(currentMode)
    \/ CallPointerDown

SpecSet == InitApi /\ [][NextSet]_vars

----------------------------------------------------------------------------
(* The frames of one run with the pointerdown event arriving at any time:   *)
(* before the first frame, between two frames of a page, right before the   *)
(* frame of a page switch or of a drift-cycle test                          *)

NextWake == Tick \/ CallPointerDown

SpecWake == InitApi /\ [][NextWake]_vars

----------------------------------------------------------------------------
(* Properties *)

Ellipses == {pi \in Mode \X (1..Max(P1Count, 1)) : pi[2] \in DOMAIN sets[pi[1]].ellipses}

Ell(pi) == sets[pi[1]].ellipses[pi[2]]

RibbonsHidden(e) == \A m \in DOMAIN e.meshesVisible : ~e.meshesVisible[m]

\* the ellipse the latest direct call went to, after the call
Called == sets[last.page].ellipses[last.idx]

\* C1: for every ellipse, in every state reached by construction, update,
\* resetDrawingParams and drift cycles with activation at any point,
\* targetEndAngle <= currentEndAngle <= currentStartAngle <= startAngle.
C1_AngleOrdering ==
    \A pi \in Ellipses :
        /\ Ell(pi).targetEndAngle <= Ell(pi).currentEndAngle
        /\ Ell(pi).currentEndAngle <= Ell(pi).currentStartAngle
        /\ Ell(pi).currentStartAngle <= Ell(pi).startAngle

\* an update call has moved the tail while the head rests on the target
C1_Witness ==
    /\ last.op = "update"
    /\ Called.currentEndAngle = Called.targetEndAngle
    /\ Called.currentStartAngle < last.pre.currentStartAngle
    /\ Called.currentStartAngle > Called.targetEndAngle

\* C2: after construction, every update and every resetDrawingParams, an
\* ellipse is finished if and only if currentStartAngle = targetEndAngle.
C2_FinishedIffTailAtTarget ==
    \A pi \in Ellipses :
        Ell(pi).finished <=>
            (Ell(pi).currentStartAngle = Ell(pi).targetEndAngle)

\* the update call that sets finished
C2_Witness ==
    /\ last.op = "update"
    /\ ~last.pre.finished
    /\ Called.finished

\* C3: update on a finished ellipse returns false and changes nothing of
\* the ellipse: angles, finished, marker position, ribbon visibility and
\* geometry stay as they were, on every repetition.
C3_UpdateOfFinishedIsNoOp ==
    (last.op = "update" /\ last.pre.finished) =>
        /\ last.ret = FALSE
        /\ Called = last.pre

\* update was called on a finished ellipse
C3_Witness ==
    /\ last.op = "update"
    /\ last.pre.finished
    /\ hasInteracted

\* C4: from any prior state resetDrawingParams leaves the three moving
\* angles at 0, targetEndAngle at -2*pi and finished false, leaves xRadius,
\* yRadius, rotation, drawSpeed and tailDelay as they were, and a second
\* application changes nothing more.
C4_ResetReinitialises ==
    (last.op = "reset") =>
        /\ Called.currentStartAngle = 0
        /\ Called.currentEndAngle = 0
        /\ Called.startAngle = 0
        /\ Called.targetEndAngle = -TwoPi
        /\ Called.finished = FALSE
        /\ Called.xRadius = last.pre.xRadius
        /\ Called.yRadius = last.pre.yRadius
        /\ Called.rotation = last.pre.rotation
        /\ Called.drawSpeed = last.pre.drawSpeed
        /\ Called.tailDelay = last.pre.tailDelay
        /\ ResetDrawingParams(Called, CfgOfSet(last.page), hasInteracted)
               = Called

\* resetDrawingParams was called while the tail was catching up, after a
\* drift cycle had changed the radii
C4_Witness ==
    /\ last.op = "reset"
    /\ last.pre.currentStartAngle < 0
    /\ last.pre.currentStartAngle > last.pre.targetEndAngle
    /\ last.pre.geometry.written
    /\ drift.time > 0

\* C5: at the end of every tick, an ellipse of either set whose span
\* |currentStartAngle - currentEndAngle| is below 0.001, or any ellipse while
\* hasInteracted is false, has all its ribbon meshes hidden; also on the tick
\* of a page switch, after setVisible(true).
C5_IdleRibbonsHidden ==
    (last.op = "tick") =>
        \A pi \in Ellipses :
            (~hasInteracted
             \/ Abs(Ell(pi).currentStartAngle - Ell(pi).currentEndAngle) < 1)
                => RibbonsHidden(Ell(pi))

\* C6: the origin marker of every ellipse is visible and sits at
\* (xRadius*cos(currentEndAngle), yRadius*sin(currentEndAngle)), with the
\* ribbons hidden or shown, before and after activation, after drift cycles.
C6_MarkerTracksTip ==
    \A pi \in Ellipses :
        /\ Ell(pi).originVisible
        /\ Ell(pi).originX = Mul(Ell(pi).xRadius, Cos(Ell(pi).currentEndAngle))
        /\ Ell(pi).originY = Mul(Ell(pi).yRadius, Sin(Ell(pi).currentEndAngle))

\* after activation and a drift cycle that changed the radii, the update
\* call that finishes the ellipse: the head is at -2*pi, the ribbons hidden
C6_Witness ==
    /\ last.op = "update"
    /\ hasInteracted
    /\ ~last.pre.finished
    /\ Called.finished
    /\ RibbonsHidden(Called)
    /\ Called.xRadius # Mul(InitialTarget.xRadius, sets[last.page].radiusScale)
    /\ Called.originX = Mul(Called.xRadius, Cos(-TwoPi))

\* the number of the update call on which the head reaches targetEndAngle:
\* the first call count >= 2*pi / drawSpeed
HeadCalls == (TwoPi + UNIFIED_DRAW_SPEED - 1) \div UNIFIED_DRAW_SPEED

\* the last call count below 2*pi + tailDelay / drawSpeed
UnfinishedCalls == (TwoPi + UNIFIED_TAIL_DELAY) \div UNIFIED_DRAW_SPEED

\* C7: counting the update calls since the latest reset (or construction),
\* the head first equals targetEndAngle after call 7, and finished is false
\* after each of the calls 1 to 11.
C7_HeadAndFinishSchedule ==
    /\ HeadCalls = 7
    /\ UnfinishedCalls = 11
    /\ \A pi \in Ellipses :
        /\ Ell(pi).calls < HeadCalls
              => Ell(pi).currentEndAngle > Ell(pi).targetEndAngle
        /\ Ell(pi).calls >= HeadCalls
              => Ell(pi).currentEndAngle = Ell(pi).targetEndAngle
        /\ Ell(pi).calls <= UnfinishedCalls => ~Ell(pi).finished

\* the 11th update call after a reset, with hasInteracted true
C7_Witness ==
    /\ last.op = "update"
    /\ hasInteracted
    /\ Called.calls = UnfinishedCalls
    /\ ~Called.finished
    /\ Called.geometry.written

\* the ellipses of the set of the latest drift cycle, before and after it
CycleIdx == DOMAIN last.preSet

Before(i) == last.preSet[i]

After(i) == sets[last.page].ellipses[i]

\* ten times the step differs from the distance by less than ten units of
\* the last fixed-point digit
TenthOf(step, dist) == Abs(10 * step - dist) < 10

\* C8: in an executed drift cycle with targets (Tx, Ty) every ellipse of
\* the set moves each radius by 10% of its distance to the target.
C8_RadiusMovesTenPercent ==
    (last.op = "cycle" /\ last.ran) =>
        \A i \in CycleIdx :
            /\ TenthOf(After(i).xRadius - Before(i).xRadius,
                       last.t.x - Before(i).xRadius)
            /\ TenthOf(After(i).yRadius - Before(i).yRadius,
                       last.t.y - Before(i).yRadius)

\* an executed cycle whose targets are away from both radii
C8_Witness ==
    /\ last.op = "cycle"
    /\ last.ran
    /\ \A i \in CycleIdx :
          /\ Abs(last.t.x - Before(i).xRadius) >= 20
          /\ Abs(last.t.y - Before(i).yRadius) >= 20
          /\ After(i).xRadius # Before(i).xRadius
          /\ After(i).yRadius # Before(i).yRadius

NoOvershoot(r, rNew, T) ==
    /\ Abs(T - rNew) <= Abs(T - r)
    /\ r <= T => rNew <= T
    /\ r >= T => rNew >= T

\* C9: in every executed drift cycle the distance of each radius to the
\* target does not grow and the radius does not cross the target.
C9_RadiusNeverOvershoots ==
    (last.op = "cycle" /\ last.ran) =>
        \A i \in CycleIdx :
            /\ NoOvershoot(Before(i).xRadius, After(i).xRadius, last.t.x)
            /\ NoOvershoot(Before(i).yRadius, After(i).yRadius, last.t.y)

\* a second executed cycle of the same set: the radii had already moved
C9_Witness ==
    /\ last.op = "cycle"
    /\ last.ran
    /\ \A i \in CycleIdx :
          /\ Before(i).xRadius
                # Mul(InitialTarget.xRadius, sets[last.page].radiusScale)
          /\ After(i).xRadius # Before(i).xRadius
          /\ After(i).xRadius # last.t.x

\* d is the target rotation minus the current one, brought to its
\* smallest-magnitude representative by multiples of 2*pi
ShortestDiff(d, cur, tgt) ==
    /\ Abs(d) <= Pi
    /\ \E k \in -4..4 : d = tgt - cur + k * TwoPi

\* C10: in a drift cycle the rotation changes by 0.1*d, d the wrap-aware
\* difference; from pi - 0.1 towards -pi + 0.1 it grows by 0.02, and the
\* change is never more than 0.1*pi.
C10_RotationTakesShortPath ==
    (last.op = "cycle" /\ last.ran) =>
        \A i \in CycleIdx :
            LET step == After(i).rotation - Before(i).rotation
            IN  /\ \E d \in -Pi..Pi :
                      /\ ShortestDiff(d, Before(i).rotation, last.t.rot)
                      /\ TenthOf(step, d)
                /\ (Before(i).rotation = Pi - 100 /\ last.t.rot = -Pi + 100)
                      => step = 20
                /\ 10 * Abs(step) <= Pi

\* the cycle of the example: current pi - 0.1, target -pi + 0.1
C10_Witness ==
    /\ last.op = "cycle"
    /\ last.ran
    /\ \A i \in CycleIdx :
          /\ Before(i).rotation = Pi - 100
          /\ last.t.rot = -Pi + 100
          /\ After(i).rotation = Pi - 80

\* C11: for every ribbon written by updateGeometry (hasInteracted true and
\* |start - end| >= 0.001), with taperEnabled true or false, and for every
\* segment index i in 0..segments, the half-width lies in [0, maxHalfWidth]
\* and the alpha lies in [0, 0.9].
C11_WidthAndAlphaInRange ==
    \A pi \in Ellipses :
        Ell(pi).geometry.written =>
            \A i \in 0..CfgOfSet(pi[1]).segments :
                /\ HalfWidth(CfgOfSet(pi[1]), Ell(pi).geometry, i) >= 0
                /\ HalfWidth(CfgOfSet(pi[1]), Ell(pi).geometry, i)
                      <= MaxHalfWidth(CfgOfSet(pi[1]))
                /\ Alpha(CfgOfSet(pi[1]), i) >= 0
                /\ Alpha(CfgOfSet(pi[1]), i) <= 900

\* updateGeometry(true) wrote the ribbon of the page-2 ellipse: the taper
\* narrows the tip to 60% of maxHalfWidth, the alpha at the tip is 0.9, and
\* the taper starts inside the ribbon
C11_Witness ==
    /\ last.op = "geometry"
    /\ last.page = PAGE2
    /\ Called.geometry.written
    /\ Called.geometry.taper
    /\ Called.geometry.start = last.pre.currentStartAngle
    /\ TaperThreshold(Called.geometry) > 0
    /\ TaperThreshold(Called.geometry) < SCALE
    /\ HalfWidth(Page2Config, Called.geometry, Page2Config.segments)
          = Mul(MaxHalfWidth(Page2Config), 600)
    /\ Alpha(Page2Config, Page2Config.segments) = 900
    /\ MaxHalfWidth(Page2Config) > 0

\* the outline the latest createParticleGeometry call returned
Outline == last.ret

\* C12: for createParticleGeometry with minPoints 6, maxPoints 9,
\* irregularity 0.2 and with 5, 8, 0.4, for every value of the random draws
\* in [0, 1), the vertex count lies in [minPoints, maxPoints], every vertex
\* radius is strictly positive and no two consecutive vertices coincide.
C12_OutlineWellFormed ==
    (last.op = "shape") =>
        /\ Outline.numPoints >= ShapeOptions(last.page).minPoints
        /\ Outline.numPoints <= ShapeOptions(last.page).maxPoints
        /\ \A i \in DOMAIN Outline.vertices :
              /\ Outline.vertices[i].r > 0
              /\ \/ Outline.vertices[i].x
                       # Outline.vertices[(i + 1) % Outline.numPoints].x
                 \/ Outline.vertices[i].y
                       # Outline.vertices[(i + 1) % Outline.numPoints].y

\* the variables of the program: all but the record of the latest operation
programVars == <<hasInteracted, currentMode, modeTimer,
                 nextModeSwitchDuration, modeSwitchCount, isBlurred,
                 blurPhase, blurTimer, nextBlurSwitchDuration,
                 interactionTarget, drift, sets, elapsed, frameDt, overlay,
                 viewport, ticks>>

\* C13: hasInteracted starts false, becomes true on the first pointerdown
\* event (and by nothing else), is never false again, and every further
\* pointerdown event changes no state at all.
C13_ActivationOnce ==
    /\ ~hasInteracted
    /\ [][/\ hasInteracted => hasInteracted'
          /\ (last'.op = "pointerdown") => hasInteracted'
          /\ (~hasInteracted /\ hasInteracted') => (last'.op = "pointerdown")
          /\ (hasInteracted /\ last'.op = "pointerdown")
                => UNCHANGED programVars]_vars

\* a pointerdown event after a page switch, when an earlier activation has
\* already let a ribbon be drawn
C13_Witness ==
    /\ last.op = "pointerdown"
    /\ hasInteracted
    /\ modeSwitchCount >= 1
    /\ \E pi \in Ellipses : Ell(pi).geometry.written

\* C14: at the end of initialization and of every tick exactly one of the
\* two sets has its containers visible, and it is the set of
\* State.currentMode.
C14_OneSetVisible ==
    (last.op \in {"init", "tick"}) =>
        \A pi \in Ellipses :
            Ell(pi).containerVisible <=> (pi[1] = currentMode)

\* the tick of the second page switch: page 1 is on display again
C14_Witness ==
    /\ last.op = "tick"
    /\ last.switched
    /\ modeSwitchCount = 2
    /\ currentMode = PAGE1
    /\ \A i \in DOMAIN sets[PAGE1].ellipses :
          sets[PAGE1].ellipses[i].containerVisible
    /\ \A i \in DOMAIN sets[PAGE2].ellipses :
          ~sets[PAGE2].ellipses[i].containerVisible

\* the four fields of State.drift that randomizeShapeConditions assigns
ShapeConditions(d) == <<d.speed, d.amplitude, d.sizeVarAmp, d.curveVarAmp>>

\* C15: State.interactionTarget and State.drift are written only by the
\* drift cycle (drift.time, advanced by 0.05) and by randomizeShapeConditions
\* (speed, amplitude, sizeVarAmp, curveVarAmp, on a page switch from the
\* third on); a frame without a drift cycle, with its update, updateGeometry,
\* setVisible and regenerateOrigins calls, a pointerdown and a resize leave
\* every field of both unchanged.
C15_TargetAndDriftWriters ==
    [][/\ interactionTarget' = interactionTarget
       /\ (drift'.time # drift.time)
             => /\ last'.op = "tick"
                /\ last'.ran
                /\ drift'.time = drift.time + DriftStep
       /\ (ShapeConditions(drift') # ShapeConditions(drift))
             => /\ last'.op = "tick"
                /\ last'.switched
                /\ modeSwitchCount' >= 3
                /\ \E d \in RandomizeShapeConditions(drift) :
                      ShapeConditions(drift') = ShapeConditions(d)
       /\ (last'.op \in {"pointerdown", "resize"}) => drift' = drift
       /\ (last'.op = "tick" /\ ~last'.ran /\ ~last'.switched)
             => drift' = drift]_vars

\* the frame of the third page switch after an activation:
\* randomizeShapeConditions has drawn new conditions and the drift cycle of
\* the same frame has advanced drift.time
C15_Witness ==
    /\ last.op = "tick"
    /\ last.switched
    /\ last.ran
    /\ modeSwitchCount = 3
    /\ ShapeConditions(drift) # ShapeConditions(InitialDrift)
    /\ drift.time > DriftStep
    /\ interactionTarget = InitialTarget

\* the fields of an ellipse that the drawing and the drift move
Pose(e) == <<e.currentStartAngle, e.currentEndAngle, e.finished, e.xRadius,
             e.yRadius, e.rotation, e.originX, e.originY>>

\* C16: while hasInteracted is false a tick changes no ellipse's
\* currentStartAngle, currentEndAngle, finished, xRadius, yRadius, rotation
\* or marker position, does not advance drift.time, leaves every ribbon
\* hidden, and update of either set returns false; the page timer and the
\* overlay timer go on (advance by one step or switch).
C16_IdleUntilActivated ==
    [][(last'.op = "tick" /\ ~hasInteracted) =>
          /\ \A p \in Mode : \A i \in DOMAIN sets[p].ellipses :
                /\ Pose(sets'[p].ellipses[i]) = Pose(sets[p].ellipses[i])
                /\ RibbonsHidden(sets'[p].ellipses[i])
          /\ drift'.time = drift.time
          /\ last'.ret = FALSE
          /\ \A p \in Mode :
                ~SetUpdate(sets[p], p, elapsed + frameDt, drift,
                           interactionTarget, hasInteracted).ret
          /\ \/ modeTimer' = modeTimer + TickStep /\ currentMode' = currentMode
             \/ modeTimer' = 0 /\ currentMode' = Other(currentMode)
          /\ \/ blurTimer' = blurTimer + TickStep /\ isBlurred' = isBlurred
             \/ blurTimer' = 0 /\ isBlurred' = ~isBlurred]_vars

\* the tick of the second page switch in a run without pointerdown: more
\* than CYCLE_INTERVAL has passed, no drift cycle has run, nothing is drawn
C16_Witness ==
    /\ last.op = "tick"
    /\ ~hasInteracted
    /\ last.switched
    /\ modeSwitchCount = 2
    /\ elapsed > CYCLE_INTERVAL
    /\ sets[currentMode].lastCycleTime > 0
    /\ drift.time = 0
    /\ \A pi \in Ellipses :
          /\ Pose(Ell(pi)) = Pose(NewSet(pi[1], InitialTarget,
                                        FALSE).ellipses[pi[2]])
          /\ RibbonsHidden(Ell(pi))

\* the radii, the rotation and the angles of an ellipse
RadiiRotationAngles(e) ==
    <<e.xRadius, e.yRadius, e.rotation, e.startAngle, e.currentStartAngle,
      e.currentEndAngle, e.targetEndAngle>>

\* C17: a resize event sets the radiusScale of the page-2 set to the scale
\* computed from the smaller side of the viewport and changes no ellipse's
\* radii, rotation or angles; the next executed drift cycle of page 2 takes
\* its target radii with that radiusScale.
C17_ResizeRescalesCenterpiece ==
    [][/\ (last'.op = "resize") =>
             /\ sets'[PAGE2].radiusScale = GetPage2Scale(viewport')
             /\ \A p \in Mode : \A i \in DOMAIN sets[p].ellipses :
                   RadiiRotationAngles(sets'[p].ellipses[i])
                       = RadiiRotationAngles(sets[p].ellipses[i])
       /\ (/\ last'.op = "tick"
           /\ last'.ran
           /\ last'.page = PAGE2
           /\ viewport # InitialViewport) =>
             last'.t = CycleTargets(drift', interactionTarget,
                                    GetPage2Scale(viewport))]_vars

\* an angle either rests, or goes down by exactly speed, or, where that
\* would pass the target, is put on the target
StepsDown(old, new, speed, target) ==
    \/ new = old
    \/ old - speed >= target /\ new = old - speed
    \/ old - speed < target /\ old > target /\ new = target

\* C18: from one update call to the next, with no reset in between,
\* currentEndAngle and currentStartAngle never increase; each goes down by
\* exactly drawSpeed on a call that moves it, except on the call where it
\* would pass targetEndAngle, where it is set to targetEndAngle.
C18_AnglesStepDown ==
    (last.op = "update") =>
        /\ Called.currentEndAngle <= last.pre.currentEndAngle
        /\ Called.currentStartAngle <= last.pre.currentStartAngle
        /\ StepsDown(last.pre.currentEndAngle, Called.currentEndAngle,
                     last.pre.drawSpeed, last.pre.targetEndAngle)
        /\ StepsDown(last.pre.currentStartAngle, Called.currentStartAngle,
                     last.pre.drawSpeed, last.pre.targetEndAngle)

\* the update call on which the head would pass targetEndAngle: it is put
\* on the target while the tail goes down by drawSpeed
C18_Witness ==
    /\ last.op = "update"
    /\ last.pre.currentEndAngle > last.pre.targetEndAngle
    /\ last.pre.currentEndAngle - last.pre.drawSpeed < last.pre.targetEndAngle
    /\ Called.currentEndAngle = Called.targetEndAngle
    /\ Called.currentStartAngle
          = last.pre.currentStartAngle - last.pre.drawSpeed

\* C19: on an update call after whose head step startAngle - currentEndAngle
\* <= tailDelay + 0.5 and currentEndAngle # targetEndAngle, currentStartAngle
\* is left as it was; the tail moves on a call only if the gap exceeds
\* tailDelay + 0.5 or the head is at targetEndAngle.
C19_TailWaitsForGap ==
    (last.op = "update") =>
        /\ (/\ Called.startAngle - Called.currentEndAngle
                  <= Called.tailDelay + SCALE \div 2
            /\ Called.currentEndAngle # Called.targetEndAngle)
              => Called.currentStartAngle = last.pre.currentStartAngle
        /\ (Called.currentStartAngle # last.pre.currentStartAngle)
              => \/ Called.startAngle - Called.currentEndAngle
                       > Called.tailDelay + SCALE \div 2
                 \/ Called.currentEndAngle = Called.targetEndAngle

\* the fifth update call after a reset: the head has moved, the gap is
\* still below tailDelay + 0.5 and the tail rests at startAngle
C19_Witness ==
    /\ last.op = "update"
    /\ hasInteracted
    /\ Called.calls = 5
    /\ Called.currentEndAngle < last.pre.currentEndAngle
    /\ Called.startAngle - Called.currentEndAngle
          <= Called.tailDelay + SCALE \div 2
    /\ Called.startAngle - Called.currentEndAngle > Called.tailDelay \div 2
    /\ Called.currentStartAngle = Called.startAngle

\* C20: after every update call that has moved the tail while the head is
\* not yet at targetEndAngle, the lag currentStartAngle - currentEndAngle is
\* at least tailDelay.
C20_LagAtLeastTailDelay ==
    (/\ last.op = "update"
     /\ Called.currentStartAngle < last.pre.currentStartAngle
     /\ Called.currentEndAngle # Called.targetEndAngle)
        => Called.currentStartAngle - Called.currentEndAngle
              >= Called.tailDelay

\* C21: right after every executed drift cycle every ellipse of the set,
\* whatever its drawing state before the cycle, has currentStartAngle =
\* currentEndAngle = 0 and finished = false.
C21_CycleRestartsDrawing ==
    (last.op = "cycle" /\ last.ran) =>
        \A i \in CycleIdx :
            /\ After(i).currentStartAngle = 0
            /\ After(i).currentEndAngle = 0
            /\ After(i).finished = FALSE

\* an executed drift cycle of a set one of whose ellipses was finished and
\* another not yet started
C21_Witness ==
    /\ last.op = "cycle"
    /\ last.ran
    /\ \E i \in CycleIdx :
          /\ Before(i).finished
          /\ Before(i).currentStartAngle = Before(i).targetEndAngle
    /\ \E i \in CycleIdx :
          /\ ~Before(i).finished
          /\ Before(i).currentEndAngle = 0

\* C22: update(elapsed) of the set on display calls the drift-cycle step on
\* exactly the ticks where elapsed - lastCycleTime > CYCLE_INTERVAL and then
\* stores lastCycleTime = elapsed; so an executed drift cycle comes more
\* than CYCLE_INTERVAL after the previous step of the same set, and a tick
\* runs at most one (drift.time advances by one step).
C22_CycleEveryInterval ==
    [][(last'.op = "tick") =>
          /\ IF elapsed' - sets[currentMode'].lastCycleTime > CYCLE_INTERVAL
             THEN /\ sets'[currentMode'].lastCycleTime = elapsed'
                  /\ last'.ran = hasInteracted
             ELSE /\ sets'[currentMode'].lastCycleTime
                        = sets[currentMode'].lastCycleTime
                  /\ ~last'.ran
          /\ sets'[Other(currentMode')].lastCycleTime
                = sets[Other(currentMode')].lastCycleTime
          /\ last'.ran =>
                /\ elapsed' - sets[currentMode'].lastCycleTime > CYCLE_INTERVAL
                /\ drift'.time = drift.time + DriftStep]_vars

\* the tick of the second executed drift cycle of the page-1 set
C22_Witness ==
    /\ last.op = "tick"
    /\ last.ran
    /\ last.page = PAGE1
    /\ modeSwitchCount = 0
    /\ drift.time = 2 * DriftStep
    /\ sets[PAGE1].lastCycleTime = elapsed
    /\ elapsed > 2 * CYCLE_INTERVAL

\* C23: State.drift.time, one accumulator for both sets, never decreases,
\* goes up by exactly 0.05 on each executed drift cycle of either set, and
\* changes on no other step: not on a tick without an executed cycle, not
\* while hasInteracted is false, not by randomizeShapeConditions.
C23_DriftTimeAccumulates ==
    [][/\ drift'.time >= drift.time
       /\ (last'.op = "tick" /\ last'.ran)
             => drift'.time = drift.time + DriftStep
       /\ ~(last'.op = "tick" /\ last'.ran) => drift'.time = drift.time
       /\ ~hasInteracted' => drift'.time = drift.time
       /\ (ShapeConditions(drift') # ShapeConditions(drift) /\ ~last'.ran)
             => drift'.time = drift.time]_vars

\* an executed drift cycle of the page-2 set that adds its step to the time
\* the cycles of the page-1 set have accumulated
C23_Witness ==
    /\ last.op = "tick"
    /\ last.ran
    /\ last.page = PAGE2
    /\ drift.time >= 3 * DriftStep
    /\ \E i \in DOMAIN sets[PAGE1].ellipses :
          sets[PAGE1].ellipses[i].xRadius
              # Mul(InitialTarget.xRadius, sets[PAGE1].radiusScale)

\* the rotation difference the latest drift cycle used for ellipse i
UsedDiff(i) == WrapDiff(last.t.rot - Before(i).rotation)

\* C24: the wrap-aware rotation difference d of a drift cycle lies in the
\* half-open interval (-pi, pi] for every current and target rotation (a raw
\* difference of exactly -pi would become +pi).
C24_DiffHalfOpen ==
    (last.op = "cycle" /\ last.ran) =>
        \A i \in CycleIdx :
            /\ -Pi < UsedDiff(i)
            /\ UsedDiff(i) <= Pi
            /\ After(i).rotation
                  = Before(i).rotation + Mul(UsedDiff(i), lerpFactor)

\* C24, amended: the wrap-aware rotation difference d of a drift cycle lies
\* in the closed interval [-pi, pi] and differs from the raw difference by a
\* multiple of 2*pi; a raw difference of exactly -pi stays -pi (and one of
\* exactly +pi stays +pi), and the rotation moves by 0.1 * d.
C24_DiffClosed ==
    (last.op = "cycle" /\ last.ran) =>
        \A i \in CycleIdx :
            /\ -Pi <= UsedDiff(i)
            /\ UsedDiff(i) <= Pi
            /\ \E k \in -4..4 :
                  UsedDiff(i) = last.t.rot - Before(i).rotation + k * TwoPi
            /\ (last.t.rot - Before(i).rotation = -Pi) => UsedDiff(i) = -Pi
            /\ (last.t.rot - Before(i).rotation = Pi) => UsedDiff(i) = Pi
            /\ After(i).rotation
                  = Before(i).rotation + Mul(UsedDiff(i), lerpFactor)

\* a drift cycle whose raw difference is exactly -pi: current rotation pi,
\* target 0, and the rotation goes down by 0.1 * pi
C24_Witness ==
    /\ last.op = "cycle"
    /\ last.ran
    /\ \A i \in CycleIdx :
          /\ Before(i).rotation = Pi
          /\ last.t.rot = 0
          /\ After(i).rotation = Pi - Mul(Pi, lerpFactor)

\* C25: a frame switches the page exactly when modeTimer, advanced by one
\* step of 0.016, exceeds nextModeSwitchDuration; the switch sets modeTimer
\* to 0 and draws a duration in [4, 16), every other frame advances the timer
\* and keeps the duration; hence the frames since the previous switch number
\* at least 250 and at most 1001 when the page switches
TicksSinceSwitch == modeTimer \div TickStep

C25_SwitchWhenTimerExceeds ==
    [][last'.op = "tick" =>
         /\ last'.switched <=> modeTimer + TickStep > nextModeSwitchDuration
         /\ last'.switched <=> currentMode' # currentMode
         /\ modeTimer = TicksSinceSwitch * TickStep
         /\ modeSwitchCount = 2 => ticks = 564 + TicksSinceSwitch
         /\ IF last'.switched
            THEN /\ modeTimer' = 0
                 /\ nextModeSwitchDuration' >= 4 * SCALE
                 /\ nextModeSwitchDuration' < 16 * SCALE
                 /\ modeSwitchCount' = modeSwitchCount + 1
                 /\ TicksSinceSwitch + 1 >= 250
                 /\ TicksSinceSwitch + 1 <= 1001
            ELSE /\ modeTimer' = modeTimer + TickStep
                 /\ modeTimer' <= nextModeSwitchDuration
                 /\ UNCHANGED <<nextModeSwitchDuration, modeSwitchCount>>]_vars

C25_Witness ==
    /\ last.op = "tick"
    /\ last.switched
    /\ modeSwitchCount = 3
    /\ modeTimer = 0
    /\ ticks = 564 + 1000

\* the drawing state, the shape and the ribbon buffers of an ellipse
DrawnShape(e) == <<RadiiRotationAngles(e), e.finished, e.geometry>>

\* C26: the outline of every page-2 ellipse is replaced once (the old one
\* disposed, a new one installed) by a frame that switches from PAGE1 to
\* PAGE2, and the set is on display with the new outline when the switching
\* block ends; no other step (a frame that switches to PAGE1, a frame without
\* a switch, a listener) replaces an outline, the outlines of page 1 are never
\* replaced, and regenerateOrigins changes no ellipse's angles, finished
\* flag, radii, rotation or ribbon buffers
C26_OriginsOnSwitchToPage2 ==
    [][LET regen == /\ last'.op = "tick"
                    /\ last'.switched
                    /\ currentMode = PAGE1
                    /\ currentMode' = PAGE2
       IN  /\ \A i \in DOMAIN sets[PAGE2].ellipses :
                 /\ sets'[PAGE2].ellipses[i].originOutline =
                        sets[PAGE2].ellipses[i].originOutline
                        + (IF regen THEN 1 ELSE 0)
                 /\ regen =>
                        /\ last'.preSet[i].originOutline =
                               sets[PAGE2].ellipses[i].originOutline + 1
                        /\ last'.preSet[i].containerVisible
                        /\ ~sets[PAGE2].ellipses[i].containerVisible
                        /\ DrawnShape(last'.preSet[i]) =
                               DrawnShape(sets[PAGE2].ellipses[i])
           /\ \A i \in DOMAIN sets[PAGE1].ellipses :
                 sets'[PAGE1].ellipses[i].originOutline =
                     sets[PAGE1].ellipses[i].originOutline
           /\ \A p \in Mode : \A i \in DOMAIN sets[p].ellipses :
                 LET e == RegenerateOrigins(sets[p]).ellipses[i]
                 IN  /\ DrawnShape(e) = DrawnShape(sets[p].ellipses[i])
                     /\ e.originOutline = sets[p].ellipses[i].originOutline + 1
      ]_vars

\* the frame of the first page switch, after a pointerdown: page 2 is on
\* display with its first regenerated outline and has started to draw
C26_Witness ==
    /\ last.op = "tick"
    /\ last.switched
    /\ currentMode = PAGE2
    /\ hasInteracted
    /\ \A i \in DOMAIN sets[PAGE2].ellipses :
          /\ sets[PAGE2].ellipses[i].originOutline = 1
          /\ sets[PAGE2].ellipses[i].containerVisible
          /\ last.preSet[i].currentEndAngle = 0
          /\ sets[PAGE2].ellipses[i].currentEndAngle < 0

\* C27: a frame that takes isBlurred from false to true sets blurPhase to
\* STRONG; from then on the phase is STRONG until the first frame on which
\* blurTimer, advanced by one step, exceeds 0.4, the 26th after the
\* transition, when it becomes NORMAL; the overlay is still in the high state
\* then; and a NORMAL phase stays NORMAL on every frame but one that takes
\* isBlurred from false to true
C27_StrongThenNormal ==
    [][last'.op = "tick" =>
         /\ (~isBlurred /\ isBlurred') => blurPhase' = "STRONG"
         /\ blurPhase = "STRONG" =>
               /\ isBlurred /\ isBlurred'
               /\ blurTimer + TickStep <= 26 * TickStep
               /\ blurPhase' = "NORMAL" <=> blurTimer + TickStep > StrongBlurTime
               /\ blurPhase' = "NORMAL" <=> blurTimer + TickStep = 26 * TickStep
         /\ (blurPhase = "NORMAL" /\ ~(~isBlurred /\ isBlurred')) =>
               blurPhase' = "NORMAL"
      ]_vars

\* C28: speed, amplitude, sizeVarAmp and curveVarAmp of State.drift are 0.5,
\* 0.05, 0.3 and 0.3 as long as fewer than three pages have been switched;
\* they change only on a frame that switches the page and takes
\* modeSwitchCount to 3 or more, and on such a frame interactionTarget stays
\* as it is and drift.time moves only by the 0.05 of the drift cycle of the
\* same frame, if there is one
C28_ShapeConditionsFromThirdSwitch ==
    [][/\ modeSwitchCount < 3 =>
             ShapeConditions(drift) = <<500, 50, 300, 300>>
       /\ modeSwitchCount' < 3 =>
             ShapeConditions(drift') = <<500, 50, 300, 300>>
       /\ ShapeConditions(drift') # ShapeConditions(drift) =>
             /\ last'.op = "tick"
             /\ last'.switched
             /\ modeSwitchCount' = modeSwitchCount + 1
             /\ modeSwitchCount' >= 3
             /\ interactionTarget' = interactionTarget
             /\ drift'.time = drift.time + (IF last'.ran THEN DriftStep ELSE 0)
      ]_vars

\* the frame of the third page switch has drawn new shape conditions and has
\* run a drift cycle with them
C28_Witness ==
    /\ last.op = "tick"
    /\ last.switched
    /\ modeSwitchCount = 3
    /\ last.ran
    /\ drift.time > 0
    /\ drift.speed < 0
    /\ drift.amplitude # 50
    /\ drift.sizeVarAmp # 300
    /\ drift.curveVarAmp # 300

\* the two angles the drawing moves
Angles(e) == <<e.currentStartAngle, e.currentEndAngle>>

\* the angles of ellipse i when the forEach of update reaches it: those the
\* drift cycle of the same call has set, or those from before the call
AnglesAtUpdate(i) == IF last.ran THEN <<0, 0>> ELSE Angles(Before(i))

\* C29: Ellipse.update returns true exactly when it has changed
\* currentEndAngle or currentStartAngle; it then leaves the geometry as one
\* updateGeometry call on the new angles leaves it, and otherwise leaves the
\* ellipse as it was, geometry included; update of a set returns true
\* exactly when hasInteracted is true and the update of at least one of its
\* ellipses has changed an angle (has returned true), and with hasInteracted
\* false it updates no ellipse
C29_UpdateReportsMovement ==
    /\ last.op = "update" =>
          /\ last.ret <=> Angles(Called) # Angles(last.pre)
          /\ last.ret =>
                Called = UpdateGeometry(Called, CfgOfSet(last.page),
                                        CfgOfSet(last.page).taperEnabled,
                                        hasInteracted)
          /\ ~last.ret => Called = last.pre
    /\ last.op = "setupdate" =>
          /\ last.ret <=>
                /\ hasInteracted
                /\ \E i \in CycleIdx : Angles(After(i)) # AnglesAtUpdate(i)
          /\ ~hasInteracted =>
                \A i \in CycleIdx : After(i) = Before(i)
          /\ \A i \in CycleIdx :
                Angles(After(i)) # AnglesAtUpdate(i) =>
                    After(i) = UpdateGeometry(After(i), CfgOfSet(last.page),
                                              CfgOfSet(last.page).taperEnabled,
                                              hasInteracted)

\* update of a set has returned true with one ellipse finished before the
\* call and another one still moving
C29_Witness ==
    /\ last.op = "setupdate"
    /\ last.ret
    /\ ~last.ran
    /\ \E i \in CycleIdx : \E j \in CycleIdx :
          /\ Before(i).finished
          /\ After(i) = Before(i)
          /\ ~Before(j).finished
          /\ Angles(After(j)) # Angles(Before(j))

\* values of drift.time, reached after 1, 157 and 314 drift cycles: at 7.85
\* the cosine of the curvature variation is at its lowest, at 15.7 the sine
\* of the size variation
DriftTimes == {1 * DriftStep, 157 * DriftStep, 314 * DriftStep}

\* the radii of ellipse e after a drift cycle with the targets t
RadiiAfterCycle(e, t) ==
    <<e.xRadius + Mul(t.x - e.xRadius, lerpFactor),
      e.yRadius + Mul(t.y - e.yRadius, lerpFactor)>>

\* C30: xRadius and yRadius of every ellipse are strictly positive; so are
\* sizeVarAmp and curveVarAmp, which stay below 1, the target radii of every
\* executed drift cycle, and the target radii and the radii a drift cycle
\* would give from here with drift.time at any of DriftTimes
C30_RadiiPositive ==
    /\ \A pi \in Ellipses : Ell(pi).xRadius > 0 /\ Ell(pi).yRadius > 0
    /\ drift.sizeVarAmp > 0 /\ drift.sizeVarAmp < SCALE
    /\ drift.curveVarAmp > 0 /\ drift.curveVarAmp < SCALE
    /\ last.ran => last.t.x > 0 /\ last.t.y > 0
    /\ \A tm \in DriftTimes : \A pi \in Ellipses :
          LET t == CycleTargets([drift EXCEPT !.time = tm], interactionTarget,
                                sets[pi[1]].radiusScale)
          IN  /\ t.x > 0 /\ t.y > 0
              /\ RadiiAfterCycle(Ell(pi), t)[1] > 0
              /\ RadiiAfterCycle(Ell(pi), t)[2] > 0

\* the frame of the third page switch has drawn the largest amplitudes and
\* its drift cycle has moved the radii of page 2
C30_Witness ==
    /\ last.op = "tick"
    /\ last.switched
    /\ last.ran
    /\ modeSwitchCount = 3
    /\ drift.sizeVarAmp = 300 + Mul(999, 500)
    /\ drift.curveVarAmp = 100 + Mul(999, 400)
    /\ \A i \in CycleIdx :
          /\ <<After(i).xRadius, After(i).yRadius>> =
                 RadiiAfterCycle(Before(i), last.t)
          /\ After(i).xRadius # Before(i).xRadius
          /\ After(i).yRadius # Before(i).yRadius

\* the vertex loop: totalAngle and taperAngle of the ribbon written as g
TotalAngle(g) == Abs(g.start - g.effectiveEnd)

TaperAngle(g) == Mul(g.angleOffset, 2500)

\* C31: for every ribbon written by updateGeometry, taperThreshold is 0.85
\* when |start - effectiveEnd| is at most 0.001 (no quotient is taken); when
\* it is more, taperThreshold lies in [0, 1], is 0 when 2.5 * angleOffset
\* reaches the total angle, and otherwise is 1 - 2.5 * angleOffset /
\* totalAngle (to the last digit)
C31_TaperThresholdGuarded ==
    \A pi \in Ellipses :
        Ell(pi).geometry.written =>
            LET g == Ell(pi).geometry
            IN  /\ TotalAngle(g) <= 1 => TaperThreshold(g) = 850
                /\ TotalAngle(g) > 1 =>
                      /\ TaperThreshold(g) >= 0
                      /\ TaperThreshold(g) <= SCALE
                      /\ TaperAngle(g) >= TotalAngle(g) =>
                             TaperThreshold(g) = 0
                      /\ TaperAngle(g) < TotalAngle(g) =>
                             /\ TaperThreshold(g) * TotalAngle(g)
                                    >= (TotalAngle(g) - TaperAngle(g)) * SCALE
                             /\ TaperThreshold(g) * TotalAngle(g)
                                    < (TotalAngle(g) - TaperAngle(g)) * SCALE
                                      + TotalAngle(g)

\* updateGeometry has written a ribbon whose inward offset exceeds the drawn
\* angle: effectiveEnd is clamped to start and taperThreshold is the default
C31_Witness ==
    /\ last.op = "geometry"
    /\ Called.geometry.written
    /\ Called.currentStartAngle - Called.currentEndAngle >= SCALE
    /\ Called.geometry.angleOffset
          > Called.currentStartAngle - Called.currentEndAngle
    /\ Called.geometry.effectiveEnd = Called.geometry.start
    /\ TaperThreshold(Called.geometry) = 850

\* updateGeometry: originRadius and currentRadius, the distance of the marker
\* from the centre
OriginRadius(cfg) ==
    Mul(IF cfg.originScale # 0 THEN cfg.originScale ELSE DEFAULT_ORIGIN_SCALE,
        cfg.radiusScale)

TipRadius(e) == SqrtSearch(e.originX * e.originX + e.originY * e.originY,
                           0, 46340)

\* C32: when updateGeometry writes a ribbon with the marker less than 0.01
\* from the centre, at the centre or not, the divisor is 1.0: angleOffset is
\* 0.8 * originRadius
C32_NearZeroTipGuarded ==
    (last.op = "geometry" /\ Called.geometry.written /\ hasInteracted
        /\ Called.currentStartAngle - Called.currentEndAngle >= 1
        /\ TipRadius(Called) < 10) =>
            /\ Called.geometry.angleOffset
                   = Mul(OriginRadius(CfgOfSet(last.page)), 800)
            /\ Called.geometry.angleOffset
                   <= Mul(OriginRadius(CfgOfSet(last.page)), 800)

\* no ribbon has been written so far
NothingDrawn == \A pi \in Ellipses : ~Ell(pi).geometry.written

\* C33: no ribbon is written before the pointerdown event; the first frame
\* after the event, with or without a drift cycle and with or without a page
\* switch in it, leaves every ellipse of the set on display with
\* currentEndAngle = -drawSpeed, currentStartAngle = 0, finished false and
\* its ribbon written, and leaves the other set as it was
C33_FirstFrameAfterActivation ==
    [][/\ ~hasInteracted' => NothingDrawn'
       /\ (hasInteracted /\ NothingDrawn /\ last'.op = "tick") =>
             /\ \A i \in DOMAIN sets'[currentMode'].ellipses :
                   LET e == sets'[currentMode'].ellipses[i]
                   IN  /\ e.currentEndAngle = -e.drawSpeed
                       /\ e.drawSpeed = UNIFIED_DRAW_SPEED
                       /\ e.currentStartAngle = 0
                       /\ e.finished = FALSE
                       /\ e.geometry.written
                       /\ e.geometry.start = 0
             /\ \A i \in DOMAIN sets'[Other(currentMode')].ellipses :
                   Pose(sets'[Other(currentMode')].ellipses[i]) =
                       Pose(sets[Other(currentMode')].ellipses[i])
       /\ (hasInteracted /\ last'.op = "tick") => ~NothingDrawn'
      ]_vars

\* the first frame after the pointerdown event is the frame of the second
\* page switch and runs a drift cycle
C33_Witness ==
    /\ last.op = "tick"
    /\ hasInteracted
    /\ last.switched
    /\ modeSwitchCount = 2
    /\ last.ran
    /\ drift.time = DriftStep
    /\ \A pi \in Ellipses : Ell(pi).geometry.written <=> pi[1] = currentMode
    /\ \A i \in CycleIdx :
          /\ ~Before(i).geometry.written
          /\ After(i).currentEndAngle = -UNIFIED_DRAW_SPEED
          /\ After(i).currentStartAngle = 0

\* what is left to draw: the way of the head and of the tail to the target
LeftToDraw(e) ==
    (e.currentEndAngle - e.targetEndAngle)
        + (e.currentStartAngle - e.targetEndAngle)

\* C34: every update call on an unfinished ellipse shortens what is left to
\* draw, and counting the calls since the latest reset (or construction) the
\* ellipse is finished after the 12th call and not before: an ellipse is
\* finished exactly when it has had 12 calls, and nothing is left to draw
\* then
C34_FinishedOnTwelfthCall ==
    /\ \A pi \in Ellipses :
          /\ Ell(pi).calls <= 12
          /\ Ell(pi).finished <=> Ell(pi).calls = 12
          /\ Ell(pi).finished <=> LeftToDraw(Ell(pi)) = 0
          /\ LeftToDraw(Ell(pi)) >= 0
    /\ (last.op = "update" /\ ~last.pre.finished) =>
          /\ Called.calls = last.pre.calls + 1
          /\ LeftToDraw(Called) < LeftToDraw(last.pre)
          /\ Called.finished <=> last.pre.calls = 11

\* the 12th update call after a drift cycle, with hasInteracted true, has
\* finished the ellipse
C34_Witness ==
    /\ last.op = "update"
    /\ hasInteracted
    /\ drift.time > 0
    /\ last.pre.calls = 11
    /\ ~last.pre.finished
    /\ Called.calls = 12
    /\ Called.finished
    /\ LeftToDraw(Called) = 0

\* C35: at the end of initialization and of every frame, all ellipses of one
\* set have the same xRadius, yRadius, rotation, currentStartAngle,
\* currentEndAngle and finished
C35_LockStep ==
    (last.op \in {"init", "tick"}) =>
        \A p \in Mode : \A i \in DOMAIN sets[p].ellipses :
            \A j \in DOMAIN sets[p].ellipses :
                /\ sets[p].ellipses[i].xRadius = sets[p].ellipses[j].xRadius
                /\ sets[p].ellipses[i].yRadius = sets[p].ellipses[j].yRadius
                /\ sets[p].ellipses[i].rotation = sets[p].ellipses[j].rotation
                /\ sets[p].ellipses[i].currentStartAngle
                       = sets[p].ellipses[j].currentStartAngle
                /\ sets[p].ellipses[i].currentEndAngle
                       = sets[p].ellipses[j].currentEndAngle
                /\ sets[p].ellipses[i].finished = sets[p].ellipses[j].finished

\* a frame of page 1, back on display after the second page switch: its two
\* ellipses have been through drift cycles and are in the middle of a drawing
C35_Witness ==
    /\ last.op = "tick"
    /\ hasInteracted
    /\ currentMode = PAGE1
    /\ modeSwitchCount = 2
    /\ ~last.ran
    /\ drift.time > DriftStep
    /\ Cardinality(DOMAIN sets[PAGE1].ellipses) >= 2
    /\ \A i \in DOMAIN sets[PAGE1].ellipses :
          /\ sets[PAGE1].ellipses[i].currentEndAngle < 0
          /\ sets[PAGE1].ellipses[i].currentStartAngle < 0
          /\ ~sets[PAGE1].ellipses[i].finished
          /\ sets[PAGE1].ellipses[i].xRadius
                 # NewSet(PAGE1, InitialTarget, FALSE).ellipses[i].xRadius

\* C36: a frame updates the set of currentMode as it is after the
\* mode-switching block and no other: the update is that of this set (its
\* drift-cycle test, its lastCycleTime, its ellipses moving when it returns
\* true), and the other set keeps its lastCycleTime and the angles, finished
\* flag, radii, rotation and marker position of every ellipse
C36_OnlyActiveSetUpdated ==
    [][last'.op = "tick" =>
         /\ last'.page = currentMode'
         /\ sets'[Other(currentMode')].lastCycleTime
                = sets[Other(currentMode')].lastCycleTime
         /\ \A i \in DOMAIN sets[Other(currentMode')].ellipses :
               Pose(sets'[Other(currentMode')].ellipses[i])
                   = Pose(sets[Other(currentMode')].ellipses[i])
         /\ sets'[currentMode'].lastCycleTime =
                IF elapsed' - sets[currentMode'].lastCycleTime > CYCLE_INTERVAL
                THEN elapsed' ELSE sets[currentMode'].lastCycleTime
         /\ last'.ret =>
               \A i \in DOMAIN sets[currentMode'].ellipses :
                   Pose(sets'[currentMode'].ellipses[i])
                       # Pose(sets[currentMode'].ellipses[i])
      ]_vars

\* the frame of a page switch after activation: the set taken off display
\* was in the middle of a drawing and stays there, the set put on display
\* starts to draw
C36_Witness ==
    /\ last.op = "tick"
    /\ last.switched
    /\ hasInteracted
    /\ last.ret
    /\ \A i \in DOMAIN sets[Other(currentMode)].ellipses :
          /\ ~sets[Other(currentMode)].ellipses[i].containerVisible
          /\ sets[Other(currentMode)].ellipses[i].currentEndAngle < 0
          /\ ~sets[Other(currentMode)].ellipses[i].finished
    /\ sets[Other(currentMode)].lastCycleTime # sets[currentMode].lastCycleTime

\* C37: the frame of a page switch with hasInteracted true runs a drift cycle
\* of the set it puts on display and leaves every ellipse of that set freshly
\* started: currentEndAngle = -drawSpeed, currentStartAngle = 0, finished
\* false
C37_ShownSetStartsFresh ==
    [][(last'.op = "tick" /\ last'.switched /\ hasInteracted) =>
          /\ last'.ran
          /\ \A i \in DOMAIN sets'[currentMode'].ellipses :
                /\ sets'[currentMode'].ellipses[i].currentEndAngle
                       = -sets'[currentMode'].ellipses[i].drawSpeed
                /\ sets'[currentMode'].ellipses[i].currentStartAngle = 0
                /\ ~sets'[currentMode'].ellipses[i].finished
      ]_vars

\* C38: while blurPhase is STRONG, isBlurred is true, blurTimer has not
\* passed the 0.4 of the strong phase, and the duration of the high state is
\* longer than that
C38_StrongOnlyWhileBlurred ==
    /\ blurPhase \in {"NORMAL", "STRONG"}
    /\ blurPhase = "STRONG" =>
          /\ isBlurred
          /\ blurTimer <= StrongBlurTime
          /\ nextBlurSwitchDuration > StrongBlurTime
    /\ isBlurred => nextBlurSwitchDuration > StrongBlurTime

\* the last frame of a strong phase: the overlay has been high for 25 frames
C38_Witness ==
    /\ last.op = "tick"
    /\ blurPhase = "STRONG"
    /\ isBlurred
    /\ overlay
    /\ blurTimer = 25 * TickStep
    /\ blurTimer + TickStep > StrongBlurTime

====
